---------------------------- MODULE Spec2Model ----------------------------
(***************************************************************************)
(* A model of the query layer of the GitHub project automation scripts:    *)
(* withRetry, findProjectFields and findPRProjectItem of                   *)
(* .github/scripts/shared-utils.js.                                        *)
(*                                                                         *)
(* One step of the model is one run of the JavaScript between two awaits:  *)
(* a call runs up to the first await of the operation, the settling of    *)
(* the operation's promise runs the try/catch of withRetry up to the next  *)
(* await (the timer, or the next call of the operation), and so on.        *)
(***************************************************************************)
EXTENDS Integers, Sequences, FiniteSets, TLC

VARIABLES
    rt,        \* the frame of the withRetry call in progress
    plan,      \* SpecRetry: what the operation does on its 1st, 2nd, ... call
    pc,        \* where the function that called withRetry stands
    args,      \* the arguments of the function under study
    remote,    \* what the remote service holds (fields, memberships)
    reqLog,    \* the requests the remote service has answered, in order
    loc,       \* the local variables of findPRProjectItem
    ret,       \* how the function under study ended
    script     \* the script that runs: its position, locals, outputs

vars == <<rt, plan, pc, args, remote, reqLog, loc, ret, script>>

---------------------------------------------------------------------------
(* Bounds of the model. *)

\* the largest maxRetries option tried in SpecRetry
MaxN == 3

\* the longest list of fields the fields query returns in SpecFields
MaxFields == 2

\* the most board memberships a pull request has in SpecPR
MaxItems == 3
MaxIssues == 2
MaxBranchLen == 4

(* Program constants. *)

\* options.maxRetries when the caller passes none
DefaultMaxRetries == 3

---------------------------------------------------------------------------
(* Values. *)

\* JavaScript's undefined / null where a string is expected
Undefined == "<undefined>"
Null == "<null>"

\* error.status of an error that has none
NoStatus == 0

\* a null id (optionId = null, projectItem = null); real ids are positive
NullId == 0

\* cursor = null: the start of the list; a cursor is the number of
\* memberships before the place it marks
NullCursor == 0

\* base-10 text of the small numbers the messages hold
NumStr(n) == IF n \in 0..9
             THEN <<"0", "1", "2", "3", "4", "5", "6", "7", "8", "9">>[n + 1]
             ELSE "many"

\* An error object: its message (text fragments, concatenated), its status
\* (RequestError has one, Error has none) and what raised it.
MkError(kind, message, status) ==
    [kind |-> kind, message |-> message, status |-> status]

\* no error: lastError before the first failure
NoError == MkError("none", <<>>, NoStatus)

\* the kinds of failure an operation handed to withRetry may raise
ErrorKinds == {"validation", "network", "rejection", "ratelimit"}

StatusOf(kind) ==
    CASE kind = "validation" -> 422
      [] kind = "network"    -> NoStatus
      [] kind = "rejection"  -> 404
      [] kind = "ratelimit"  -> 429
      [] OTHER               -> NoStatus

Messages == {<<"boom">>, <<"bang">>}

OpErrors == {MkError(k, m, StatusOf(k)) : k \in ErrorKinds, m \in Messages}

\* the values an operation may return in SpecRetry
OpResults == {"r1", "r2"}

\* the outcome of one call of the operation
Ok(v)   == [ok |-> TRUE,  value |-> v,         error |-> NoError]
Fail(e) == [ok |-> FALSE, value |-> Undefined, error |-> e]

OpOutcomes == {Ok(v) : v \in OpResults} \cup {Fail(e) : e \in OpErrors}

OperationLabels == {"opA", "opB"}

---------------------------------------------------------------------------
(* withRetry, shared-utils.js lines 45-68. *)

\* the frame before any call
IdleFrame ==
    [pc |-> "idle", fn |-> "none", operation |-> "", maxRetries |-> 0,
     attempt |-> 0, lastError |-> NoError, result |-> Undefined,
     error |-> NoError, calls |-> 0, delays |-> 0, inflight |-> 0]

\* a loop that stops one attempt short
LoopGuardShort(attempt, maxRetries) == attempt < maxRetries

\* for (...; attempt <= maxRetries; ...)
LoopGuard(attempt, maxRetries) == attempt <= maxRetries

\* if (attempt < maxRetries) { await timer }
ShouldDelay(attempt, maxRetries, error) == attempt < maxRetries

\* a catch block that keeps the first error it saw
CatchErrorKeepFirst(lastError, error) ==
    IF lastError.kind = "none" THEN error ELSE lastError

\* lastError = error
CatchError(lastError, error) == error

\* new Error(`${operation} failed after ${maxRetries} attempts. Last error: ${lastError.message}`)
ExhaustedError(operation, maxRetries, lastError) ==
    MkError("Error",
            <<operation, " failed after ", NumStr(maxRetries),
              " attempts. Last error: ">> \o lastError.message,
            NoStatus)

\* reading lastError.message when the loop body never ran
TypeErrorUndefined ==
    MkError("TypeError", <<"Cannot read properties of undefined">>, NoStatus)

\* const result = await fn(): the operation is called and its promise awaited
Invoke(r) ==
    [r EXCEPT !.pc = "await", !.calls = @ + 1, !.inflight = @ + 1]

\* the statement after the loop, line 67
Throw(r) ==
    [r EXCEPT !.pc = "thrown",
              !.error = IF r.lastError = NoError
                        THEN TypeErrorUndefined
                        ELSE ExhaustedError(r.operation, r.maxRetries, r.lastError)]

\* the loop test with the attempt it is made for: the body, or the throw
LoopTest(r) ==
    IF LoopGuard(r.attempt, r.maxRetries) THEN Invoke(r) ELSE Throw(r)

\* attempt++ and the loop test
Advance(r) == LoopTest([r EXCEPT !.attempt = @ + 1])

\* withRetry(fn, {maxRetries, operation}) up to its first await
Enter(fn, operation, maxRetries) ==
    LoopTest([IdleFrame EXCEPT !.fn = fn, !.operation = operation,
                               !.maxRetries = maxRetries, !.attempt = 1])

\* a try block that stores the result and lets the loop go on
OnSuccessNoReturn(r, value) ==
    Advance([r EXCEPT !.result = value, !.inflight = @ - 1])

\* a catch block that gives up at once on a validation error
OnFailureClassifying(r, e) ==
    LET c == [r EXCEPT !.lastError = CatchError(r.lastError, e),
                       !.inflight = @ - 1]
    IN  IF e.kind = "validation"
        THEN [c EXCEPT !.pc = "thrown", !.error = e]
        ELSE IF ShouldDelay(r.attempt, r.maxRetries, e)
             THEN [c EXCEPT !.pc = "delay", !.delays = @ + 1]
             ELSE Advance(c)

\* the try block after the await: return result
OnSuccess(r, value) ==
    [r EXCEPT !.pc = "returned", !.result = value, !.inflight = @ - 1]

\* the catch block: record the error, then the timer or the next round
OnFailure(r, e) ==
    LET c == [r EXCEPT !.lastError = CatchError(r.lastError, e),
                       !.inflight = @ - 1]
    IN  IF ShouldDelay(r.attempt, r.maxRetries, e)
        THEN [c EXCEPT !.pc = "delay", !.delays = @ + 1]
        ELSE Advance(c)

\* the operation's promise settles
Settle(r, o) == IF o.ok THEN OnSuccess(r, o.value) ELSE OnFailure(r, o.error)

\* the timer of line 62 fires: the loop goes on
TimerFires ==
    /\ rt.pc = "delay"
    /\ rt' = Advance(rt)
    /\ UNCHANGED <<script, plan, pc, args, remote, reqLog, loc, ret>>

---------------------------------------------------------------------------
(* SpecRetry: withRetry on an operation given by its outcomes, call by     *)
(* call.                                                                   *)

\* no pattern given
NoRegex == [anchored |-> FALSE, literal |-> "", group |-> "plain"]

NoArgs == [fieldName |-> "", optionName |-> Null, projectId |-> "",
           issueNodeId |-> "", prNodeId |-> "", branch |-> <<>>,
           regex |-> NoRegex]
NoRemote == [fields |-> <<>>, items |-> <<>>, cuts |-> {}, issues |-> <<>>]
\* no project item: find's undefined and the null of line 290 and 303 alike
NullItem == [id |-> NullId, projectId |-> Null]
NoLoc == [projectItem |-> NullItem, hasNextPage |-> TRUE, cursor |-> NullCursor]
NoValue == [fieldId |-> NullId, optionId |-> NullId]
NoRet == [kind |-> "none", value |-> NoValue, error |-> NoError]

\* process.env and github.context as a script reads them; 0 and "" stand
\* for a variable that is not set
NoEnv == [missing |-> FALSE, itemId |-> NullId, issueNumber |-> 0,
          domain |-> "", fieldId |-> NullId, optionId |-> NullId,
          fieldName |-> "", optionName |-> "", dateValue |-> ""]

\* the outputs of a run: the keys core.setOutput was called with, and the
\* value given for each
NoOutputs ==
    [set |-> {}, itemId |-> NullId, issue |-> "", issue_number |-> "",
     issue_node_id |-> "", removed |-> "", pr_number |-> "",
     item_id |-> NullId, fieldId |-> NullId, optionId |-> NullId,
     date |-> ""]

\* no script: the function under study is called on its own
NoScript ==
    [name |-> "none", pc |-> "none", env |-> NoEnv,
     contentId |-> "", fieldId |-> NullId, optionId |-> NullId,
     itemId |-> NullId, issueNumber |-> 0, issues |-> <<>>, index |-> 0,
     processedCount |-> 0, warnings |-> 0, failed |-> FALSE,
     failedMessage |-> <<>>, error |-> NoError, outputs |-> NoOutputs]

Plans == UNION {[1..n -> OpOutcomes] : n \in 1..MaxN}

InitRetry ==
    /\ plan \in Plans
    /\ \E label \in OperationLabels :
          rt = Enter("plan", label, Len(plan))
    /\ pc = "withRetry"
    /\ args = NoArgs
    /\ remote = NoRemote
    /\ reqLog = <<>>
    /\ loc = NoLoc
    /\ ret = NoRet
    /\ script = NoScript

\* the operation of SpecRetry settles as its plan says for this call
OpSettles ==
    /\ rt.pc = "await"
    /\ rt.fn = "plan"
    /\ rt.calls \in 1..Len(plan)
    /\ rt' = Settle(rt, plan[rt.calls])
    /\ UNCHANGED <<script, plan, pc, args, remote, reqLog, loc, ret>>

NextRetry == OpSettles \/ TimerFires

SpecRetry == InitRetry /\ [][NextRetry]_vars

(* Properties of withRetry. *)

RetryDone == rt.pc \in {"returned", "thrown"}

\* the attempts on which the operation fails
FailedAttempts == {k \in 1..Len(plan) : ~plan[k].ok}

\* the first attempt on which the operation succeeds, 0 if there is none
FirstOk ==
    IF \A k \in 1..Len(plan) : ~plan[k].ok
    THEN 0
    ELSE CHOOSE k \in 1..Len(plan) :
            plan[k].ok /\ \A j \in 1..(k - 1) : ~plan[j].ok

\* C1: with maxRetries = N >= 1, an operation that fails on every attempt is
\* called exactly N times with exactly N-1 delays and the call fails; one
\* that fails on attempts 1..k-1 and succeeds on attempt k <= N gives attempt
\* k's result after exactly k calls and k-1 delays. A delay stands only
\* between two attempts: while the timer runs there are as many delays as
\* calls, otherwise one fewer.
C1_AttemptsAndDelays ==
    /\ rt.delays = (IF rt.pc = "delay" THEN rt.calls ELSE rt.calls - 1)
    /\ RetryDone =>
          IF FirstOk = 0
          THEN /\ rt.pc = "thrown"
               /\ rt.calls = rt.maxRetries
               /\ rt.delays = rt.maxRetries - 1
          ELSE /\ rt.pc = "returned"
               /\ rt.result = plan[FirstOk].value
               /\ rt.calls = FirstOk
               /\ rt.delays = FirstOk - 1

\* C1 witness: three attempts, two failures, then the third one's result
C1_Witness ==
    /\ rt.pc = "returned" /\ rt.maxRetries = 3 /\ rt.calls = 3
    /\ rt.delays = 2 /\ rt.result = plan[3].value

\* C2: the operation is never called more than maxRetries times, at most
\* one call is in flight (one exactly while withRetry awaits it), no call
\* follows a successful one, and a successful call's result is returned.
C2_BoundedSequential ==
    /\ rt.calls <= rt.maxRetries
    /\ rt.inflight = (IF rt.pc = "await" THEN 1 ELSE 0)
    /\ \A k \in 1..(rt.calls - 1) : ~plan[k].ok
    /\ (rt.pc # "await" /\ plan[rt.calls].ok) =>
          rt.pc = "returned" /\ rt.result = plan[rt.calls].value

\* C2 witness: a success on the second of three allowed attempts, the third
\* planned outcome never asked for
C2_Witness ==
    /\ rt.pc = "returned" /\ rt.maxRetries = 3 /\ rt.calls = 2
    /\ rt.inflight = 0 /\ ~plan[3].ok

\* the last Len(m) fragments of message s are m
EndsWith(s, m) ==
    /\ Len(m) <= Len(s)
    /\ SubSeq(s, Len(s) - Len(m) + 1, Len(s)) = m

\* C3: when every attempt failed, the error raised starts with the
\* operation label and ends with the message of the last attempt's failure,
\* whatever the earlier failures' messages were.
C3_LastFailureReported ==
    rt.pc = "thrown" =>
        /\ rt.error.message[1] = rt.operation
        /\ EndsWith(rt.error.message, plan[rt.maxRetries].error.message)
        /\ rt.lastError = plan[rt.maxRetries].error

\* C3 witness: exhaustion where the first and the last failure carry
\* different messages
C3_Witness ==
    /\ rt.pc = "thrown" /\ rt.maxRetries = 3
    /\ plan[1].error.message # plan[3].error.message
    /\ plan[2].error.message # plan[3].error.message

\* the number of calls that follows from which attempts fail, and nothing else
CallsFor(failed, n) ==
    IF (1..n) \subseteq failed
    THEN n
    ELSE CHOOSE k \in 1..n : k \notin failed /\ (1..(k - 1)) \subseteq failed

\* C4: failures are not classified: the number of calls, the number of
\* delays and the outcome follow from the set of failing attempts alone,
\* for every kind of error, and a failure of any kind with attempts left is
\* followed by the delay.
C4_NoClassification ==
    /\ RetryDone =>
          /\ rt.calls = CallsFor(FailedAttempts, rt.maxRetries)
          /\ rt.delays = CallsFor(FailedAttempts, rt.maxRetries) - 1
          /\ (rt.pc = "thrown") = ((1..rt.maxRetries) \subseteq FailedAttempts)
    /\ \A kind \in ErrorKinds :
          (rt.lastError.kind = kind /\ rt.inflight = 0 /\ ~RetryDone) =>
              rt.pc = "delay"

\* C4 witness: exhaustion by a validation error, a network error and a rate
\* limit, each retried alike
C4_Witness ==
    /\ rt.pc = "thrown" /\ rt.maxRetries = 3 /\ rt.calls = 3
    /\ plan[1].error.kind = "validation"
    /\ plan[2].error.kind = "network"
    /\ plan[3].error.kind = "ratelimit"


---------------------------------------------------------------------------
(* The remote service: the errors a request may end with.                  *)

RemoteErrors ==
    {MkError("network", <<"socket hang up">>, NoStatus),
     MkError("rejection", <<"Could not resolve to a node">>, 404)}

\* one request the remote service has dealt with: the query, its cursor,
\* whether it was answered, and whether the answer held the node asked for
Request(query, cursor, ok, resolved) ==
    [query |-> query, cursor |-> cursor, ok |-> ok, resolved |-> resolved]

---------------------------------------------------------------------------
(* findProjectFields, shared-utils.js lines 225-254.                       *)

FieldNames == {"Status", "status"}
OptionNames == {"Done", "done"}

\* the option lists a single-select field may carry: up to two options,
\* names repeated or not
OptionLists == UNION {[1..n -> OptionNames] : n \in 0..2}

\* what the fields query returns for one field, before ids are given: a
\* single-select field (it has options, maybe none), a scalar one (it has
\* a dataType and no options member), or a field of a type neither fragment
\* of the query selects (an object with no member at all)
FieldShapes ==
    {[name |-> n, hasOptions |-> TRUE, optNames |-> l] :
        n \in FieldNames, l \in OptionLists}
    \cup {[name |-> n, hasOptions |-> FALSE, optNames |-> <<>>] :
        n \in FieldNames \cup {Undefined}}

\* the i-th node of the answer; ids are the positions, so that equal names
\* still have different ids
MkField(i, shape) ==
    [id |-> i,
     name |-> shape.name,
     hasOptions |-> shape.hasOptions,
     options |-> [j \in 1..Len(shape.optNames) |->
                     [id |-> 10 * i + j, name |-> shape.optNames[j]]],
     dataType |-> IF shape.hasOptions \/ shape.name = Undefined
                  THEN Undefined
                  ELSE "DATE"]

FieldLists ==
    {[i \in 1..Len(shapes) |-> MkField(i, shapes[i])] :
        shapes \in UNION {[1..n -> FieldShapes] : n \in 0..MaxFields}}

\* JavaScript truthiness of a string-or-null argument
Truthy(x) == x # Null /\ x # Undefined /\ x # ""

\* a comparison that ignores case
Lower(x) ==
    CASE x = "Status" -> "status"
      [] x = "Done"   -> "done"
      [] OTHER        -> x
NameEqualsIgnoreCase(a, b) == Lower(a) = Lower(b)

\* f.name === fieldName, opt.name === optionName
NameEquals(a, b) == a = b

\* Array.prototype.find on names: the index of the first element whose
\* name is the one looked for, 0 when find gives undefined
FindByName(list, name) ==
    IF \E i \in 1..Len(list) : NameEquals(list[i].name, name)
    THEN CHOOSE i \in 1..Len(list) :
            /\ NameEquals(list[i].name, name)
            /\ \A j \in 1..(i - 1) : ~NameEquals(list[j].name, name)
    ELSE 0

\* an options test that takes an empty list for no list
HasOptionsNonEmpty(field) == field.hasOptions /\ Len(field.options) > 0

\* field.options is truthy: any array is, the empty one too
HasOptions(field) == field.hasOptions

\* an option lookup made whenever an option name is given
OptionLookupAppliesAlways(optionName, field) == Truthy(optionName)

\* if (optionName && field.options)
OptionLookupApplies(optionName, field) ==
    Truthy(optionName) /\ HasOptions(field)

FieldNotFound(fieldName, projectId) ==
    MkError("FieldNotFound",
            <<"Field '", fieldName, "' not found in project ", projectId>>,
            NoStatus)

OptionNotFound(optionName, fieldName) ==
    MkError("OptionNotFound",
            <<"Option '", optionName, "' not found in field '", fieldName, "'">>,
            NoStatus)

Returns(value) == [kind |-> "value", value |-> value, error |-> NoError]
Throws(e)      == [kind |-> "error", value |-> NoValue, error |-> e]

\* lines 231-253: what findProjectFields does with the fetched fields
ResolveFields(fields, a) ==
    LET i == FindByName(fields, a.fieldName)
    IN  IF i = 0
        THEN Throws(FieldNotFound(a.fieldName, a.projectId))
        ELSE IF OptionLookupApplies(a.optionName, fields[i])
             THEN LET j == FindByName(fields[i].options, a.optionName)
                  IN  IF j = 0
                      THEN Throws(OptionNotFound(a.optionName, a.fieldName))
                      ELSE Returns([fieldId |-> fields[i].id,
                                    optionId |-> fields[i].options[j].id])
             ELSE Returns([fieldId |-> fields[i].id, optionId |-> NullId])

\* an operation that looks the field up inside the retried closure
FieldsOperationResolving(response, a) ==
    IF FindByName(response, a.fieldName) = 0
    THEN Fail(FieldNotFound(a.fieldName, a.projectId))
    ELSE Ok(response)

\* () => octokit.graphql(PROJECT_FIELDS, {projectId}): the closure hands the
\* answer on as it is
FieldsOperation(response, a) == Ok(response)

InitFields ==
    /\ remote \in {[NoRemote EXCEPT !.fields = l] : l \in FieldLists}
    /\ args \in {[NoArgs EXCEPT !.fieldName = f, !.optionName = o,
                                 !.projectId = "P1"] :
                    f \in FieldNames, o \in OptionNames \cup {Null}}
    /\ rt = IdleFrame
    /\ plan = <<>>
    /\ pc = "start"
    /\ reqLog = <<>>
    /\ loc = NoLoc
    /\ ret = NoRet
    /\ script = NoScript

\* findProjectFields is called: withRetry runs up to the first request
FPF_Call ==
    /\ pc = "start"
    /\ rt' = Enter("fields", "finding project fields", DefaultMaxRetries)
    /\ pc' = "awaitFields"
    /\ UNCHANGED <<script, plan, args, remote, reqLog, loc, ret>>

\* the remote service answers the fields query, or the request fails
FieldsQuerySettles ==
    /\ rt.pc = "await"
    /\ rt.fn = "fields"
    /\ \E answer \in {Ok(remote.fields)} \cup {Fail(e) : e \in RemoteErrors} :
          /\ reqLog' = Append(reqLog, Request("fields", NullCursor, answer.ok, answer.ok))
          /\ rt' = Settle(rt, IF answer.ok
                              THEN FieldsOperation(answer.value, args)
                              ELSE answer)
    /\ UNCHANGED <<script, plan, pc, args, remote, loc, ret>>

\* a resolution that asks for the fields again when the field is missing
FPF_ResumeRefetching ==
    /\ pc = "awaitFields"
    /\ rt.pc \in {"returned", "thrown"}
    /\ IF /\ rt.pc = "returned"
          /\ FindByName(rt.result, args.fieldName) = 0
          /\ Len(reqLog) < DefaultMaxRetries
       THEN /\ rt' = Enter("fields", "finding project fields", DefaultMaxRetries)
            /\ UNCHANGED <<pc, ret>>
       ELSE /\ ret' = IF rt.pc = "thrown"
                      THEN Throws(rt.error)
                      ELSE ResolveFields(rt.result, args)
            /\ pc' = "done"
            /\ UNCHANGED rt
    /\ UNCHANGED <<script, plan, args, remote, reqLog, loc>>

\* withRetry has ended: its error goes to the caller, its result is resolved
FPF_Resume ==
    /\ pc = "awaitFields"
    /\ rt.pc \in {"returned", "thrown"}
    /\ ret' = IF rt.pc = "thrown"
              THEN Throws(rt.error)
              ELSE ResolveFields(rt.result, args)
    /\ pc' = "done"
    /\ UNCHANGED <<script, rt, plan, args, remote, reqLog, loc>>

NextFields == FPF_Call \/ FieldsQuerySettles \/ TimerFires \/ FPF_Resume

SpecFields == InitFields /\ [][NextFields]_vars

(* Properties of findProjectFields. *)

FieldsDone == pc = "done"

\* the last fields query was answered
FetchOk == Len(reqLog) >= 1 /\ reqLog[Len(reqLog)].ok

\* the positions of the fetched fields that carry the requested name
Matches == {i \in 1..Len(remote.fields) : remote.fields[i].name = args.fieldName}

Least(S) == CHOOSE i \in S : \A j \in S : i <= j
Greatest(S) == CHOOSE i \in S : \A j \in S : j <= i

\* the field the name resolves to, when Matches is not empty
Resolved == remote.fields[Least(Matches)]

\* the positions of the resolved field's options that carry the requested name
OptionMatches ==
    {j \in 1..Len(Resolved.options) : Resolved.options[j].name = args.optionName}

\* C5: FieldNotFound and OptionNotFound are raised only after the fields
\* query was answered, and are not retried: no fields query follows an
\* answered one, so the queries are the attempts up to and including the
\* first answered one.
C5_ResolutionNotRetried ==
    /\ \A i \in 1..(Len(reqLog) - 1) : ~reqLog[i].ok
    /\ (ret.kind = "error" /\ ret.error.kind \in {"FieldNotFound", "OptionNotFound"}) =>
          /\ FetchOk
          /\ rt.pc = "returned"
          /\ rt.inflight = 0
          /\ Len(reqLog) = rt.calls

\* C5 witness: the first query failed, the second was answered, and the
\* option was not found: two queries, no third
C5_Witness ==
    /\ FieldsDone /\ ret.kind = "error" /\ ret.error.kind = "OptionNotFound"
    /\ Len(reqLog) = 2 /\ ~reqLog[1].ok /\ reqLog[2].ok

C7_FirstExactMatch ==
    (FieldsDone /\ FetchOk) =>
        IF Matches = {}
        THEN ret.kind = "error" /\ ret.error.kind = "FieldNotFound"
        ELSE /\ ret.error.kind # "FieldNotFound"
             /\ ret.kind = "value" => ret.value.fieldId = Resolved.id
             /\ args.optionName = Null => ret.kind = "value"

\* C7 witness: the requested name differs only by case from the first
\* field's and equals the second field's: the second field's id is returned
C7_Witness ==
    /\ FieldsDone /\ ret.kind = "value"
    /\ Len(remote.fields) = 2
    /\ args.fieldName = "Status"
    /\ remote.fields[1].name = "status" /\ remote.fields[2].name = "Status"
    /\ ret.value.fieldId = remote.fields[2].id

\* C8: with an option name given and a resolved field that carries an
\* options list (an empty one too), the result carries the id of the first
\* option of that name if and only if the list has one; otherwise the call
\* fails with OptionNotFound, never a result with a null optionId.
C8_OptionResolved ==
    (/\ FieldsDone /\ FetchOk /\ Matches # {}
     /\ args.optionName # Null /\ Resolved.hasOptions) =>
        IF OptionMatches = {}
        THEN ret.kind = "error" /\ ret.error.kind = "OptionNotFound"
        ELSE /\ ret.kind = "value"
             /\ ret.value.optionId = Resolved.options[Least(OptionMatches)].id
             /\ ret.value.optionId # NullId

\* C8 witness: the resolved field carries an empty options list and the call
\* fails with OptionNotFound
C8_Witness ==
    /\ FieldsDone /\ FetchOk /\ Matches # {}
    /\ args.optionName # Null
    /\ Resolved.hasOptions /\ Resolved.options = <<>>
    /\ ret.kind = "error" /\ ret.error.kind = "OptionNotFound"

\* C9: with an option name given and a resolved field without options (a
\* scalar field), the call does not fail: it returns the field's id with a
\* null optionId.
C9_ScalarFieldNullOption ==
    (/\ FieldsDone /\ FetchOk /\ Matches # {}
     /\ args.optionName # Null /\ ~Resolved.hasOptions) =>
        /\ ret.kind = "value"
        /\ ret.value.fieldId = Resolved.id
        /\ ret.value.optionId = NullId

\* C9 witness: an option name given, the second field resolved, a scalar one
C9_Witness ==
    /\ FieldsDone /\ FetchOk /\ Matches # {}
    /\ args.optionName = "Done" /\ ~Resolved.hasOptions
    /\ Resolved.id = 2 /\ ret.kind = "value" /\ ret.value.optionId = NullId

---------------------------------------------------------------------------
(* findPRProjectItem, shared-utils.js lines 289-318.                       *)

Boards == {"P1", "P2", "P3", "P4"}

\* the board memberships of a pull request, by board: at most one per board
MembershipLists ==
    {l \in UNION {[1..n -> Boards] : n \in 0..MaxItems} :
        \A i, j \in 1..Len(l) : i # j => l[i] # l[j]}

\* the ways the remote service may cut a list of n memberships into pages:
\* the positions after which a page ends, the last page ending at n
Splits(n) == SUBSET (1..(n - 1))

\* the end of the page that starts after the cursor
PageEnd(items, cuts, cursor) ==
    LET ends == {c \in cuts \cup {Len(items)} : c > cursor}
    IN  IF ends = {}
        THEN cursor
        ELSE CHOOSE c \in ends : \A d \in ends : c <= d

\* the answer to PR_PROJECT_ITEMS_PAGINATED with `after: cursor`: the
\* memberships after the cursor, a page of them; a membership's id is its
\* position in the whole list
PageAfter(items, cuts, cursor) ==
    LET last == PageEnd(items, cuts, cursor)
    IN  [pullRequest |-> TRUE,
         nodes |-> [k \in 1..(last - cursor) |->
                       [id |-> cursor + k, projectId |-> items[cursor + k]]],
         hasNextPage |-> last < Len(items),
         endCursor |-> last]

\* the answer when the node id no longer resolves to a pull request
PullRequestGone ==
    [pullRequest |-> FALSE, nodes |-> <<>>, hasNextPage |-> FALSE,
     endCursor |-> NullCursor]

\* a find that takes the first membership, whatever its board
FindItemAny(nodes, projectId) ==
    IF nodes = <<>> THEN NullItem ELSE nodes[1]

\* pr.projectItems.nodes.find(item => item.project.id === projectId)
FindItem(nodes, projectId) ==
    IF \E k \in 1..Len(nodes) : nodes[k].projectId = projectId
    THEN nodes[CHOOSE k \in 1..Len(nodes) :
                  /\ nodes[k].projectId = projectId
                  /\ \A j \in 1..(k - 1) : nodes[j].projectId # projectId]
    ELSE NullItem

\* a scan that never asks for a second page
ContinueScanNever(hasNextPage, projectItem) == FALSE

\* a scan that goes on until a match, whatever the page says of a next page
ContinueScanUntilMatch(hasNextPage, projectItem) == projectItem = NullItem

\* while (hasNextPage && !projectItem)
ContinueScan(hasNextPage, projectItem) ==
    hasNextPage /\ projectItem = NullItem

\* locals that do not take the cursor of the page: the next fetch asks for
\* the first page again
AfterPageSameCursor(page, projectId) ==
    [projectItem |-> FindItem(page.nodes, projectId),
     hasNextPage |-> page.hasNextPage,
     cursor |-> NullCursor]

\* lines 306-308: the locals after a page that held the pull request
AfterPage(page, projectId) ==
    [projectItem |-> FindItem(page.nodes, projectId),
     hasNextPage |-> page.hasNextPage,
     cursor |-> page.endCursor]

InitPR ==
    /\ remote \in {[NoRemote EXCEPT !.items = l, !.cuts = c] :
                      l \in MembershipLists, c \in Splits(MaxItems)}
    /\ remote.cuts \subseteq 1..(Len(remote.items) - 1)
    /\ args = [NoArgs EXCEPT !.projectId = "P1", !.prNodeId = "PR_1"]
    /\ rt = IdleFrame
    /\ plan = <<>>
    /\ pc = "start"
    /\ reqLog = <<>>
    /\ loc = NoLoc
    /\ ret = NoRet
    /\ script = NoScript

\* findPRProjectItem is called: the locals are set, the loop is entered and
\* withRetry runs up to the first request
PR_Call ==
    /\ pc = "start"
    /\ loc' = NoLoc
    /\ IF ContinueScan(NoLoc.hasNextPage, NoLoc.projectItem)
       THEN /\ rt' = Enter("prItems", "finding PR project items", DefaultMaxRetries)
            /\ pc' = "awaitPage"
            /\ UNCHANGED ret
       ELSE /\ ret' = Returns(NoLoc.projectItem)
            /\ pc' = "done"
            /\ UNCHANGED rt
    /\ UNCHANGED <<script, plan, args, remote, reqLog>>

\* the remote service answers the page query made with the current cursor
\* (with the page, or with no pull request), or the request fails
PRItemsQuerySettles ==
    /\ rt.pc = "await"
    /\ rt.fn = "prItems"
    /\ \E answer \in {Ok(PageAfter(remote.items, remote.cuts, loc.cursor)),
                      Ok(PullRequestGone)}
                     \cup {Fail(e) : e \in RemoteErrors} :
          /\ reqLog' = Append(reqLog,
                              Request("prItems", loc.cursor, answer.ok,
                                      answer.ok /\ answer.value.pullRequest))
          /\ rt' = Settle(rt, answer)
    /\ UNCHANGED <<script, plan, pc, args, remote, loc, ret>>

\* a lookup whose pages share one retry budget: the attempt counter goes on
\* from page to page
PR_ResumeSharedBudget ==
    /\ pc = "awaitPage"
    /\ rt.pc \in {"returned", "thrown"}
    /\ IF rt.pc = "thrown"
       THEN /\ ret' = Throws(rt.error)
            /\ pc' = "done"
            /\ UNCHANGED <<rt, loc>>
       ELSE IF ~rt.result.pullRequest
       THEN /\ ret' = Returns(NullItem)
            /\ pc' = "done"
            /\ UNCHANGED <<rt, loc>>
       ELSE LET after == AfterPage(rt.result, args.projectId)
            IN  /\ loc' = after
                /\ IF ContinueScan(after.hasNextPage, after.projectItem)
                   THEN /\ rt' = Invoke([rt EXCEPT !.result = Undefined])
                        /\ UNCHANGED <<pc, ret>>
                   ELSE /\ ret' = Returns(after.projectItem)
                        /\ pc' = "done"
                        /\ UNCHANGED rt
    /\ UNCHANGED <<script, plan, args, remote, reqLog>>

\* a lookup without the guard of lines 300-304: reading projectItems of a
\* null pull request raises a TypeError
PR_ResumeNoGuard ==
    /\ pc = "awaitPage"
    /\ rt.pc \in {"returned", "thrown"}
    /\ IF rt.pc = "thrown"
       THEN /\ ret' = Throws(rt.error)
            /\ pc' = "done"
            /\ UNCHANGED <<rt, loc>>
       ELSE IF ~rt.result.pullRequest
       THEN /\ ret' = Throws(TypeErrorUndefined)
            /\ pc' = "done"
            /\ UNCHANGED <<rt, loc>>
       ELSE LET after == AfterPage(rt.result, args.projectId)
            IN  /\ loc' = after
                /\ IF ContinueScan(after.hasNextPage, after.projectItem)
                   THEN /\ rt' = Enter("prItems", "finding PR project items",
                                       DefaultMaxRetries)
                        /\ UNCHANGED <<pc, ret>>
                   ELSE /\ ret' = Returns(after.projectItem)
                        /\ pc' = "done"
                        /\ UNCHANGED rt
    /\ UNCHANGED <<script, plan, args, remote, reqLog>>

\* withRetry has ended: its error goes to the caller; its result ends the
\* lookup (no pull request, a match, no further page) or the next page is
\* asked for
PR_Resume ==
    /\ pc = "awaitPage"
    /\ rt.pc \in {"returned", "thrown"}
    /\ IF rt.pc = "thrown"
       THEN /\ ret' = Throws(rt.error)
            /\ pc' = "done"
            /\ UNCHANGED <<rt, loc>>
       ELSE IF ~rt.result.pullRequest
       THEN /\ ret' = Returns(NullItem)
            /\ pc' = "done"
            /\ UNCHANGED <<rt, loc>>
       ELSE LET after == AfterPage(rt.result, args.projectId)
            IN  /\ loc' = after
                /\ IF ContinueScan(after.hasNextPage, after.projectItem)
                   THEN /\ rt' = Enter("prItems", "finding PR project items",
                                       DefaultMaxRetries)
                        /\ UNCHANGED <<pc, ret>>
                   ELSE /\ ret' = Returns(after.projectItem)
                        /\ pc' = "done"
                        /\ UNCHANGED rt
    /\ UNCHANGED <<script, plan, args, remote, reqLog>>

NextPR == PR_Call \/ PRItemsQuerySettles \/ TimerFires \/ PR_Resume

SpecPR == InitPR /\ [][NextPR]_vars

\* the same lookup on a runtime that runs every continuation that is ready:
\* a request that was sent settles (with an answer or an error), a timer
\* that was set fires, a settled promise resumes its awaiter
SpecPRFair == SpecPR /\ WF_vars(NextPR)

(* Properties of findPRProjectItem. *)

PRDone == pc = "done"

\* every answer so far held the pull request
AlwaysResolved == \A i \in 1..Len(reqLog) : reqLog[i].ok => reqLog[i].resolved

\* the positions of the pull request's memberships on the target board
OnTarget == {k \in 1..Len(remote.items) : remote.items[k] = args.projectId}

\* the cursors of the pages of the whole list, first to last
PageCursors == {NullCursor} \cup remote.cuts

\* the cursors of the pages that were answered
Fetched == {reqLog[i].cursor : i \in {j \in 1..Len(reqLog) : reqLog[j].ok}}

\* C10: for every split of the memberships into pages, when the lookup
\* returns and the pull request resolved on every page, it returns the
\* membership on the target board whenever some page holds one (on any
\* page, the last too), and it returns null only when every page up to the
\* one without a next page was fetched and none holds such a membership.
C10_FoundOnAnyPage ==
    (PRDone /\ ret.kind = "value" /\ AlwaysResolved) =>
        IF OnTarget # {}
        THEN /\ ret.value.projectId = args.projectId
             /\ ret.value.id \in OnTarget
        ELSE /\ ret.value = NullItem
             /\ Fetched = PageCursors
             /\ ~PageAfter(remote.items, remote.cuts,
                           Greatest(Fetched)).hasNextPage

\* C10 witness: three pages of one membership each, the target board's on
\* the last one, found there
C10_Witness ==
    /\ PRDone /\ ret.kind = "value"
    /\ Len(remote.items) = 3 /\ remote.cuts = {1, 2}
    /\ remote.items[3] = args.projectId
    /\ ret.value.id = 3
    /\ Fetched = {0, 1, 2}

\* the indices of the failed requests made with a cursor
FailedAt(c) == {i \in 1..Len(reqLog) : ~reqLog[i].ok /\ reqLog[i].cursor = c}

\* the number of failed requests at the end of the log
TrailingFailures ==
    LET answered == {i \in 1..Len(reqLog) : reqLog[i].ok}
    IN  IF answered = {} THEN Len(reqLog) ELSE Len(reqLog) - Greatest(answered)

\* C11: a failed page request is followed only by a request with the same
\* cursor; a page that was answered is never asked for again, every later
\* request carries a later cursor; and each page has its own retry budget:
\* the attempt counter of the page being fetched counts the failures of
\* that page alone, and the lookup gives up only after DefaultMaxRetries
\* failures in a row on one cursor.
C11_RetryOnlyFailedPage ==
    /\ \A i \in 1..(Len(reqLog) - 1) :
          IF reqLog[i].ok
          THEN \A j \in (i + 1)..Len(reqLog) : reqLog[j].cursor > reqLog[i].cursor
          ELSE reqLog[i + 1].cursor = reqLog[i].cursor
    /\ \A i \in 1..Len(reqLog) :
          Cardinality(FailedAt(reqLog[i].cursor)) <= DefaultMaxRetries
    /\ rt.fn = "prItems" =>
          /\ rt.pc = "await" =>
                /\ rt.attempt = TrailingFailures + 1
                /\ \A i \in 1..TrailingFailures :
                      reqLog[Len(reqLog) + 1 - i].cursor = loc.cursor
          /\ rt.pc = "delay" => rt.attempt = TrailingFailures
          /\ rt.pc = "thrown" =>
                /\ TrailingFailures = DefaultMaxRetries
                /\ Cardinality(FailedAt(loc.cursor)) = DefaultMaxRetries

\* C11 witness: the first page is answered after two failures, and so is a
\* later page: five requests or more were made for one lookup that returned
C11_Witness ==
    /\ PRDone /\ ret.kind = "value"
    /\ Cardinality(FailedAt(NullCursor)) = 2
    /\ \E c \in remote.cuts : Cardinality(FailedAt(c)) = 2 /\ c \in Fetched
\* C12: the lookup terminates: the requests it makes are bounded by the
\* retry budget times the number of pages of the (bounded) collection, and
\* on a runtime where every request settles and every timer fires it ends,
\* also after pages that report a next page and hold no match.
C12_Terminates ==
    /\ [](Len(reqLog) <= DefaultMaxRetries * Cardinality(PageCursors))
    /\ <>PRDone

\* C12 witness: a page with no match that reported a next page was fetched,
\* and the lookup ended
C12_Witness ==
    /\ PRDone
    /\ \E c \in Fetched :
          LET page == PageAfter(remote.items, remote.cuts, c)
          IN  /\ page.hasNextPage
              /\ FindItem(page.nodes, args.projectId) = NullItem
\* the indices of the answers that held no pull request
GoneAt == {i \in 1..Len(reqLog) : reqLog[i].ok /\ ~reqLog[i].resolved}

\* C13: an answered page whose pullRequest is null ends the lookup: no
\* request follows it, the lookup's next step returns null and raises no
\* error, however many pages were fetched before.
C13_GoneReturnsNull ==
    GoneAt # {} =>
        /\ GoneAt = {Len(reqLog)}
        /\ rt.pc = "returned"
        /\ PRDone => ret = Returns(NullItem)
        /\ ~PRDone => /\ pc = "awaitPage"
                      /\ ENABLED PR_Resume
                      /\ ~ENABLED PRItemsQuerySettles
                      /\ ~ENABLED TimerFires

\* C13 witness: two pages were fetched, then the third answer held no pull
\* request, and the lookup returned null
C13_Witness ==
    /\ PRDone
    /\ Cardinality(Fetched) = 3
    /\ GoneAt = {Len(reqLog)}
    /\ ret = Returns(NullItem)

\* the page the remote service holds after the cursor of request i
PageOf(i) == PageAfter(remote.items, remote.cuts, reqLog[i].cursor)

\* the index, from 1, of the page that holds the membership of position k
PageIndex(k) == 1 + Cardinality({c \in remote.cuts : c < k})

\* C23: the first page request carries the null cursor; a request after a
\* failed one carries the same cursor (a retry), a request after an
\* answered one carries the endCursor of that page; no request follows an
\* answer without the pull request, a page that holds a membership on the
\* target board, or a page with hasNextPage = false; hence, when the
\* lookup returns a value and the pull request resolved on every page, the
\* number of distinct pages fetched is the index of the first page with a
\* match, or the number of pages when none matches.
C23_CursorThreading ==
    /\ \A i \in 1..Len(reqLog) :
          /\ i = 1 => reqLog[i].cursor = NullCursor
          /\ i > 1 =>
                IF reqLog[i - 1].ok
                THEN /\ reqLog[i - 1].resolved
                     /\ PageOf(i - 1).hasNextPage
                     /\ FindItem(PageOf(i - 1).nodes, args.projectId) = NullItem
                     /\ reqLog[i].cursor = PageOf(i - 1).endCursor
                ELSE reqLog[i].cursor = reqLog[i - 1].cursor
    /\ (PRDone /\ ret.kind = "value" /\ AlwaysResolved) =>
          Cardinality(Fetched) = IF OnTarget # {}
                                 THEN PageIndex(Least(OnTarget))
                                 ELSE Cardinality(PageCursors)

\* C23 witness: three pages of one membership each, the target board's on
\* the second: the first fetch failed once and was made again with the
\* null cursor, the second page was asked for with the first page's
\* endCursor, and the third page was never asked for
C23_Witness ==
    /\ PRDone /\ ret.kind = "value"
    /\ Len(remote.items) = 3 /\ remote.cuts = {1, 2}
    /\ remote.items[2] = args.projectId
    /\ Len(reqLog) = 3
    /\ ~reqLog[1].ok /\ reqLog[2].ok /\ reqLog[3].ok
    /\ reqLog[2].cursor = NullCursor
    /\ reqLog[3].cursor = 1
    /\ Fetched = {0, 1}
    /\ ret.value.id = 2

---------------------------------------------------------------------------
(* findIssueProjectItem, shared-utils.js lines 263-280.                    *)

\* projectItems(first: 20) of GRAPHQL_QUERIES.ISSUE_PROJECT_ITEMS
IssueItemsFirst == 20

\* boards other than those of Boards, for issues that sit on many boards
OtherBoardNames ==
    <<"Q1", "Q2", "Q3", "Q4", "Q5", "Q6", "Q7", "Q8", "Q9", "Q10",
      "Q11", "Q12", "Q13", "Q14", "Q15", "Q16", "Q17", "Q18", "Q19", "Q20">>

\* n memberships on n other boards
OnOtherBoards(n) == SubSeq(OtherBoardNames, 1, n)

\* the memberships of an issue as the remote service lists them: every
\* short list, and the lists that end at and just beyond the page size with
\* the membership on board P1 last
IssueMembershipLists ==
    UNION {[1..n -> Boards] : n \in 0..MaxItems}
    \cup {OnOtherBoards(n) \o <<"P1">> : n \in {IssueItemsFirst - 1, IssueItemsFirst}}

\* the answer to ISSUE_PROJECT_ITEMS: the first memberships of the issue, a
\* membership's id being its position in the whole list
IssuePage(items) ==
    LET n == IF Len(items) < IssueItemsFirst THEN Len(items) ELSE IssueItemsFirst
    IN  [issue |-> TRUE,
         nodes |-> [k \in 1..n |-> [id |-> k, projectId |-> items[k]]]]

\* the answer when the node id does not resolve to an issue
IssueGone == [issue |-> FALSE, nodes |-> <<>>]

InitIssue ==
    /\ remote \in {[NoRemote EXCEPT !.items = l] : l \in IssueMembershipLists}
    /\ args = [NoArgs EXCEPT !.projectId = "P1", !.issueNodeId = "I_1"]
    /\ rt = IdleFrame
    /\ plan = <<>>
    /\ pc = "start"
    /\ reqLog = <<>>
    /\ loc = NoLoc
    /\ ret = NoRet
    /\ script = NoScript

\* findIssueProjectItem is called: withRetry runs up to its first request
FIP_Call ==
    /\ pc = "start"
    /\ rt' = Enter("issueItems", "finding issue project items", DefaultMaxRetries)
    /\ pc' = "awaitIssueItems"
    /\ UNCHANGED <<script, plan, args, remote, reqLog, loc, ret>>

\* the remote service answers the memberships query (with the first
\* memberships, or with no issue), or the request fails
IssueItemsQuerySettles ==
    /\ rt.pc = "await"
    /\ rt.fn = "issueItems"
    /\ \E answer \in {Ok(IssuePage(remote.items)), Ok(IssueGone)}
                     \cup {Fail(e) : e \in RemoteErrors} :
          /\ reqLog' = Append(reqLog,
                              Request("issueItems", NullCursor, answer.ok,
                                      answer.ok /\ answer.value.issue))
          /\ rt' = Settle(rt, answer)
    /\ UNCHANGED <<script, plan, pc, args, remote, loc, ret>>

\* lines 268-279: result.issue?.projectItems?.nodes?.find(...), returned
IssueItemOf(result, projectId) ==
    IF result.issue THEN FindItem(result.nodes, projectId) ELSE NullItem

\* a lookup that takes a failed fetch for no membership
FIP_ResumeSwallowing ==
    /\ pc = "awaitIssueItems"
    /\ rt.pc \in {"returned", "thrown"}
    /\ ret' = IF rt.pc = "thrown"
              THEN Returns(NullItem)
              ELSE Returns(IssueItemOf(rt.result, args.projectId))
    /\ pc' = "done"
    /\ UNCHANGED <<script, rt, plan, args, remote, reqLog, loc>>

\* withRetry has ended: its error goes to the caller, the membership found
\* in its result (or none) is returned
FIP_Resume ==
    /\ pc = "awaitIssueItems"
    /\ rt.pc \in {"returned", "thrown"}
    /\ ret' = IF rt.pc = "thrown"
              THEN Throws(rt.error)
              ELSE Returns(IssueItemOf(rt.result, args.projectId))
    /\ pc' = "done"
    /\ UNCHANGED <<script, rt, plan, args, remote, reqLog, loc>>

NextIssue == FIP_Call \/ IssueItemsQuerySettles \/ TimerFires \/ FIP_Resume

SpecIssue == InitIssue /\ [][NextIssue]_vars

(* Properties of findIssueProjectItem. *)

IssueDone == pc = "done"

\* the page that answered the one fetch, when the issue resolved
ReturnedPage == rt.result.nodes

\* C14: the issue lookup makes one retry-wrapped fetch and no further page
\* request: all its requests are the attempts of one withRetry, without a
\* cursor, and at most one is answered; when it returns, it returns the
\* first membership of the returned page whose board is the target board,
\* or null when the page holds none; a membership on another board is
\* never returned.
C14_SingleFetchFirstMatch ==
    /\ \A i \in 1..Len(reqLog) :
          /\ reqLog[i].query = "issueItems"
          /\ reqLog[i].cursor = NullCursor
          /\ reqLog[i].ok => i = Len(reqLog)
    /\ Len(reqLog) <= DefaultMaxRetries
    /\ rt.fn = "issueItems" => rt.calls = Len(reqLog) + rt.inflight
    /\ (IssueDone /\ ret.kind = "value" /\ reqLog[Len(reqLog)].resolved) =>
          LET hits == {k \in 1..Len(ReturnedPage) :
                          ReturnedPage[k].projectId = args.projectId}
          IN  IF hits = {}
              THEN ret.value = NullItem
              ELSE /\ ret.value = ReturnedPage[Least(hits)]
                   /\ ret.value.projectId = args.projectId

\* C14 witness: the page holds a membership on another board first and two
\* on the target board; the first of the two is returned
C14_Witness ==
    /\ IssueDone /\ ret.kind = "value"
    /\ remote.items = <<"P2", "P1", "P1">>
    /\ ret.value = [id |-> 2, projectId |-> "P1"]

---------------------------------------------------------------------------
(* The three lookups of the core side by side: findProjectFields,          *)
(* findIssueProjectItem, findPRProjectItem, lines 225-318.                 *)

\* which lookup a state belongs to, by the arguments of the call
IsFieldsCall == args.fieldName # ""
IsIssueCall == args.issueNodeId # ""
IsPRCall == args.prNodeId # ""

InitLookups == InitFields \/ InitIssue \/ InitPR

NextLookups ==
    \/ IsFieldsCall /\ NextFields
    \/ IsIssueCall /\ NextIssue
    \/ IsPRCall /\ NextPR

SpecLookups == InitLookups /\ [][NextLookups]_vars

(* Properties of the three lookups. *)

LookupDone == pc = "done"

\* the last answer held the issue or pull request asked for
LastResolved == Len(reqLog) >= 1 /\ reqLog[Len(reqLog)].resolved

\* what holds of every lookup that ended: an exhausted retry reaches the
\* caller as the error withRetry threw, a missing field or option reaches
\* it as FieldNotFound or OptionNotFound, and a value is returned only
\* after an answered fetch
FailuresPropagate ==
    /\ rt.pc = "thrown" =>
          /\ ret.kind = "error"
          /\ ret.error = ExhaustedError(rt.operation, DefaultMaxRetries, rt.lastError)
          /\ TrailingFailures = DefaultMaxRetries
    /\ ret.kind = "value" => rt.pc = "returned" /\ FetchOk
    /\ (IsFieldsCall /\ rt.pc = "returned") =>
          IF Matches = {}
          THEN ret = Throws(FieldNotFound(args.fieldName, args.projectId))
          ELSE IF Truthy(args.optionName) /\ Resolved.hasOptions
                  /\ OptionMatches = {}
          THEN ret = Throws(OptionNotFound(args.optionName, args.fieldName))
          ELSE ret.kind = "value" /\ ret.value.fieldId = Resolved.id

\* a pull request lookup returns null only when the pull request did not
\* resolve or every page was fetched and none holds a membership on the
\* target board
PRNullOnlyWhenAbsent ==
    (IsPRCall /\ ret.kind = "value" /\ ret.value = NullItem /\ LastResolved) =>
        /\ OnTarget = {}
        /\ Fetched = PageCursors

\* C15 as claimed: hard failures reach the caller, and null is returned
\* only when the fetches succeeded and no membership on the target board
\* exists.
C15_NullOnlyWhenNoMembership ==
    LookupDone =>
        /\ FailuresPropagate
        /\ PRNullOnlyWhenAbsent
        /\ (IsIssueCall /\ ret.kind = "value" /\ ret.value = NullItem
              /\ LastResolved) =>
              \A k \in 1..Len(remote.items) : remote.items[k] # args.projectId

\* C15: in the three lookups a FieldNotFound, an OptionNotFound and a
\* retry exhaustion (on any page) reach the caller as an error, never as a
\* null result; null is returned only after answered fetches, when the
\* content did not resolve or no membership on the target board is among
\* the memberships the fetches returned: all pages for a pull request, the
\* first IssueItemsFirst (20) memberships for an issue.
C15_HardFailuresPropagate ==
    LookupDone =>
        /\ FailuresPropagate
        /\ PRNullOnlyWhenAbsent
        /\ (IsIssueCall /\ ret.kind = "value" /\ ret.value = NullItem
              /\ LastResolved) =>
              \A k \in 1..Len(remote.items) :
                  k <= IssueItemsFirst => remote.items[k] # args.projectId

\* C15 witness: a pull request lookup fetched its first page, then the
\* fetch of the second page failed DefaultMaxRetries times, and the caller
\* got the error
C15_Witness ==
    /\ LookupDone /\ IsPRCall
    /\ Fetched = {NullCursor}
    /\ Cardinality(FailedAt(loc.cursor)) = DefaultMaxRetries
    /\ loc.cursor # NullCursor
    /\ ret.kind = "error"
    /\ ret.error.kind = "Error"

---------------------------------------------------------------------------
(* executeScript, shared-utils.js lines 357-367, and what the scripts      *)
(* share.                                                                  *)

\* a catch block that throws the error again without core.setFailed
ScriptFailsSilently(s, e) == [s EXCEPT !.pc = "failed", !.error = e]

\* catch (error) { core.setFailed(error.message); throw error }
ScriptFails(s, e) ==
    [s EXCEPT !.pc = "failed", !.failed = TRUE,
              !.failedMessage = e.message, !.error = e]

\* mainFunction returned: "completed successfully"
ScriptCompletes(s) == [s EXCEPT !.pc = "completed"]

\* validateEnvironmentVariables, lines 13-21
MissingEnvironment ==
    MkError("Error", <<"Missing required environment variables: ">>, NoStatus)

\* one mutation or REST call the remote service has dealt with, with the
\* variables it was sent
Mutation(query, ok, variables) ==
    [query |-> query, cursor |-> NullCursor, ok |-> ok, resolved |-> ok,
     variables |-> variables]

\* the requests of the log that were made by the operation of a name
RequestsOf(query) == {i \in 1..Len(reqLog) : reqLog[i].query = query}

\* the UPDATE_PROJECT_FIELD mutation settles
UpdateFieldSettles ==
    /\ rt.pc = "await"
    /\ rt.fn = "updateField"
    /\ \E answer \in {Ok(Undefined)} \cup {Fail(e) : e \in RemoteErrors} :
          /\ reqLog' = Append(reqLog,
                              Mutation("updateField", answer.ok,
                                       [itemId |-> script.itemId,
                                        fieldId |-> script.fieldId,
                                        optionId |-> script.optionId]))
          /\ rt' = Settle(rt, answer)
    /\ UNCHANGED <<script, plan, pc, args, remote, loc, ret>>

\* octokit.rest.issues.get settles: the issue's data, or an error
IssueGetSettles ==
    /\ rt.pc = "await"
    /\ rt.fn = "issueGet"
    /\ \E answer \in {Ok("I_1")} \cup {Fail(e) : e \in RemoteErrors} :
          /\ reqLog' = Append(reqLog, Request("issueGet", NullCursor,
                                              answer.ok, answer.ok))
          /\ rt' = Settle(rt, answer)
    /\ UNCHANGED <<script, plan, pc, args, remote, loc, ret>>

---------------------------------------------------------------------------
(* addDomain, shared-utils.js lines 508-569.                               *)

\* the fields of the board as addDomain may find them: no field, the Domain
\* field after another one with two options, a Domain field without options
DomainFieldLists ==
    {<<>>,
     <<MkField(1, [name |-> "Status", hasOptions |-> TRUE,
                   optNames |-> <<"Done">>]),
       MkField(2, [name |-> "Domain", hasOptions |-> TRUE,
                   optNames |-> <<"Backend", "Frontend">>])>>,
     <<MkField(1, [name |-> "Domain", hasOptions |-> FALSE,
                   optNames |-> <<>>])>>}

NoIssueNumber ==
    MkError("Error",
            <<"No issue number found in context and no ITEM_ID provided">>,
            NoStatus)

ItemNotFound(issueNumber, projectId) ==
    MkError("Error",
            <<"Project item for issue #", NumStr(issueNumber),
              " not found in project ", projectId>>,
            NoStatus)

InitAddDomain ==
    /\ script \in {[NoScript EXCEPT !.name = "addDomain", !.pc = "start",
                                    !.env = [NoEnv EXCEPT !.missing = m,
                                                          !.itemId = i,
                                                          !.issueNumber = n,
                                                          !.domain = d]] :
                       m \in BOOLEAN, i \in {NullId, 9}, n \in {0, 5},
                       d \in {"Frontend", "Mobile"}}
    /\ remote \in {[NoRemote EXCEPT !.fields = f, !.items = l] :
                       f \in DomainFieldLists,
                       l \in {<<>>, <<"P2", "P1">>}}
    /\ args = NoArgs
    /\ rt = IdleFrame
    /\ plan = <<>>
    /\ pc = "idle"
    /\ reqLog = <<>>
    /\ loc = NoLoc
    /\ ret = NoRet

\* await findProjectFields(octokit, projectId, 'Domain', domainValue): the
\* call runs up to the first request of its withRetry
CallFindDomainField(s) ==
    /\ args' = [NoArgs EXCEPT !.fieldName = "Domain",
                              !.optionName = s.env.domain,
                              !.projectId = "P1"]
    /\ rt' = Enter("fields", "finding project fields", DefaultMaxRetries)
    /\ pc' = "awaitFields"
    /\ script' = [s EXCEPT !.pc = "awaitFields"]
    /\ UNCHANGED ret

\* lines 508-536: the environment is validated; without ITEM_ID the issue
\* is fetched, with it the Domain field is looked up at once
AD_Start ==
    /\ script.name = "addDomain"
    /\ script.pc = "start"
    /\ IF script.env.missing
       THEN /\ script' = ScriptFails(script, MissingEnvironment)
            /\ UNCHANGED <<rt, pc, args, ret>>
       ELSE IF script.env.itemId # NullId
       THEN CallFindDomainField(script)
       ELSE IF script.env.issueNumber = 0
       THEN /\ script' = ScriptFails(script, NoIssueNumber)
            /\ UNCHANGED <<rt, pc, args, ret>>
       ELSE /\ rt' = Enter("issueGet", "fetching issue data", DefaultMaxRetries)
            /\ script' = [script EXCEPT !.pc = "awaitIssue"]
            /\ UNCHANGED <<pc, args, ret>>
    /\ UNCHANGED <<plan, remote, reqLog, loc>>

\* lines 531-545: the issue was fetched (or not); its node id is kept and
\* the Domain field is looked up
AD_AfterIssue ==
    /\ script.name = "addDomain"
    /\ script.pc = "awaitIssue"
    /\ rt.pc \in {"returned", "thrown"}
    /\ IF rt.pc = "thrown"
       THEN /\ script' = ScriptFails(script, rt.error)
            /\ UNCHANGED <<rt, pc, args, ret>>
       ELSE CallFindDomainField([script EXCEPT !.contentId = rt.result])
    /\ UNCHANGED <<plan, remote, reqLog, loc>>

\* lines 540-565: the field was resolved (or not); the item is the one
\* provided, and the update is sent, or the item is looked up
AD_AfterFields ==
    /\ script.name = "addDomain"
    /\ script.pc = "awaitFields"
    /\ pc = "done"
    /\ IF ret.kind = "error"
       THEN /\ script' = ScriptFails(script, ret.error)
            /\ pc' = "idle"
            /\ UNCHANGED <<rt, args>>
       ELSE LET s == [script EXCEPT !.fieldId = ret.value.fieldId,
                                    !.optionId = ret.value.optionId]
            IN  IF s.env.itemId # NullId
                THEN /\ script' = [s EXCEPT !.itemId = s.env.itemId,
                                            !.pc = "awaitUpdate"]
                     /\ rt' = Enter("updateField", "updating domain field",
                                    DefaultMaxRetries)
                     /\ pc' = "idle"
                     /\ UNCHANGED args
                ELSE /\ script' = [s EXCEPT !.pc = "awaitItem"]
                     /\ args' = [NoArgs EXCEPT !.projectId = "P1",
                                               !.issueNodeId = s.contentId]
                     /\ rt' = Enter("issueItems", "finding issue project items",
                                    DefaultMaxRetries)
                     /\ pc' = "awaitIssueItems"
    /\ ret' = NoRet
    /\ UNCHANGED <<plan, remote, reqLog, loc>>

\* lines 552-565: the item was found (or not); the update is sent
AD_AfterItem ==
    /\ script.name = "addDomain"
    /\ script.pc = "awaitItem"
    /\ pc = "done"
    /\ IF ret.kind = "error"
       THEN /\ script' = ScriptFails(script, ret.error)
            /\ UNCHANGED rt
       ELSE IF ret.value = NullItem
       THEN /\ script' = ScriptFails(script,
                                     ItemNotFound(script.env.issueNumber, "P1"))
            /\ UNCHANGED rt
       ELSE /\ script' = [script EXCEPT !.itemId = ret.value.id,
                                        !.pc = "awaitUpdate"]
            /\ rt' = Enter("updateField", "updating domain field",
                           DefaultMaxRetries)
    /\ pc' = "idle"
    /\ ret' = NoRet
    /\ UNCHANGED <<plan, args, remote, reqLog, loc>>

\* lines 557-568: the update was made (or not)
AD_AfterUpdate ==
    /\ script.name = "addDomain"
    /\ script.pc = "awaitUpdate"
    /\ rt.pc \in {"returned", "thrown"}
    /\ script' = IF rt.pc = "thrown"
                 THEN ScriptFails(script, rt.error)
                 ELSE ScriptCompletes(script)
    /\ UNCHANGED <<rt, plan, pc, args, remote, reqLog, loc, ret>>

NextAddDomain ==
    \/ AD_Start
    \/ IssueGetSettles
    \/ AD_AfterIssue
    \/ FieldsQuerySettles
    \/ FPF_Resume
    \/ AD_AfterFields
    \/ IssueItemsQuerySettles
    \/ FIP_Resume
    \/ AD_AfterItem
    \/ UpdateFieldSettles
    \/ AD_AfterUpdate
    \/ TimerFires

SpecAddDomain == InitAddDomain /\ [][NextAddDomain]_vars

(* Properties of addDomain. *)

\* the order of addDomain's requests: an update follows an answered fields
\* query and carries the resolved field's id and the provided item id, or,
\* when none was provided, follows an answered membership query and carries
\* the id of the issue's membership on the board; after a FieldNotFound or
\* an OptionNotFound there is no membership query and no update; without
\* a provided item id and without a membership on the board the script does
\* not complete and sends no update
AddDomainOrdered ==
    /\ \A i \in RequestsOf("updateField") :
          /\ \E j \in 1..(i - 1) : reqLog[j].query = "fields" /\ reqLog[j].ok
          /\ reqLog[i].variables.fieldId # NullId
          /\ remote.fields[reqLog[i].variables.fieldId].name = "Domain"
          /\ IF script.env.itemId # NullId
             THEN /\ reqLog[i].variables.itemId = script.env.itemId
                  /\ RequestsOf("issueItems") = {}
             ELSE /\ \E j \in 1..(i - 1) :
                        /\ reqLog[j].query = "issueItems"
                        /\ reqLog[j].ok /\ reqLog[j].resolved
                        /\ \E k \in 1..(j - 1) :
                              reqLog[k].query = "fields" /\ reqLog[k].ok
                  /\ reqLog[i].variables.itemId
                        \in {k \in 1..Len(remote.items) : remote.items[k] = "P1"}
    /\ (script.pc = "failed"
          /\ script.error.kind \in {"FieldNotFound", "OptionNotFound"}) =>
          /\ RequestsOf("issueItems") = {}
          /\ RequestsOf("updateField") = {}
    /\ (script.env.itemId = NullId
          /\ \A k \in 1..Len(remote.items) : remote.items[k] # "P1") =>
          /\ script.pc # "completed"
          /\ RequestsOf("updateField") = {}
          /\ (RequestsOf("issueItems") # {} /\ script.pc = "failed"
                /\ reqLog[Len(reqLog)].ok) =>
                script.error = ItemNotFound(script.env.issueNumber, "P1")

\* C25: the update of the Domain field is issued only after the field and
\* option were resolved and then the item was located (or was provided);
\* after a field or option that was not found no membership query and no
\* update are made; without a provided item id and a membership on the
\* board the script fails and no update is made; and no update is issued
\* with a null option id.
C25_UpdateAfterResolution ==
    /\ AddDomainOrdered
    /\ \A i \in RequestsOf("updateField") :
          reqLog[i].variables.optionId # NullId

---------------------------------------------------------------------------
(* stagingToProduction, stg-to-prod.js lines 23-115.                       *)

\* the closed issues that carry the staging label, by number
IssueLists == {[k \in 1..n |-> k] : n \in 0..MaxIssues}

InitStgToProd ==
    /\ script \in {[NoScript EXCEPT !.name = "stagingToProduction",
                                    !.pc = "start", !.env.missing = m] :
                       m \in BOOLEAN}
    /\ remote \in {[NoRemote EXCEPT !.issues = l] : l \in IssueLists}
    /\ args = NoArgs
    /\ rt = IdleFrame
    /\ plan = <<>>
    /\ pc = "idle"
    /\ reqLog = <<>>
    /\ loc = NoLoc
    /\ ret = NoRet

\* lines 64-88: the environment is validated and the issues are asked for
STP_Start ==
    /\ script.name = "stagingToProduction"
    /\ script.pc = "start"
    /\ IF script.env.missing
       THEN /\ script' = ScriptFails(script, MissingEnvironment)
            /\ UNCHANGED rt
       ELSE /\ rt' = Enter("listIssues",
                           "fetching closed issues with staging label",
                           DefaultMaxRetries)
            /\ script' = [script EXCEPT !.pc = "awaitList"]
    /\ UNCHANGED <<plan, pc, args, remote, reqLog, loc, ret>>

\* octokit.paginate(listForRepo) settles: every page was read, or a page
\* failed
ListIssuesSettles ==
    /\ rt.pc = "await"
    /\ rt.fn = "listIssues"
    /\ \E answer \in {Ok(remote.issues)} \cup {Fail(e) : e \in RemoteErrors} :
          /\ reqLog' = Append(reqLog, Mutation("listIssues", answer.ok, <<>>))
          /\ rt' = Settle(rt, answer)
    /\ UNCHANGED <<script, plan, pc, args, remote, loc, ret>>

\* removeLabel(...) of lines 23-38 up to the first request of its withRetry
CallRemoveLabel(s) ==
    /\ rt' = Enter("removeLabel", "removing \"staging\" label from issue",
                   DefaultMaxRetries)
    /\ script' = [s EXCEPT !.pc = "awaitRemove"]

\* the loop of lines 98-112 at the issue of index s.index: its body starts,
\* or the loop is over and the script returns
LoopOverIssues(s) ==
    IF s.index <= Len(s.issues)
    THEN CallRemoveLabel(s)
    ELSE /\ script' = ScriptCompletes(s)
         /\ UNCHANGED rt

\* lines 88-101: the issues were fetched (or not); none ends the script,
\* else the loop starts
STP_AfterList ==
    /\ script.name = "stagingToProduction"
    /\ script.pc = "awaitList"
    /\ rt.pc \in {"returned", "thrown"}
    /\ IF rt.pc = "thrown"
       THEN /\ script' = ScriptFails(script, rt.error)
            /\ UNCHANGED rt
       ELSE IF Len(rt.result) = 0
       THEN /\ script' = ScriptCompletes([script EXCEPT !.issues = rt.result])
            /\ UNCHANGED rt
       ELSE LoopOverIssues([script EXCEPT !.issues = rt.result, !.index = 1])
    /\ UNCHANGED <<plan, pc, args, remote, reqLog, loc, ret>>

\* octokit.rest.issues.removeLabel settles
RemoveLabelSettles ==
    /\ rt.pc = "await"
    /\ rt.fn = "removeLabel"
    /\ \E answer \in {Ok(Undefined)} \cup {Fail(e) : e \in RemoteErrors} :
          /\ reqLog' = Append(reqLog,
                              Mutation("removeLabel", answer.ok,
                                       [issue |-> script.issues[script.index]]))
          /\ rt' = Settle(rt, answer)
    /\ UNCHANGED <<script, plan, pc, args, remote, loc, ret>>

\* a loop body that does not await removeLabel: addLabels is called while
\* the removal is in flight or its retry timer runs
STP_AfterRemoveNoAwait ==
    /\ script.name = "stagingToProduction"
    /\ script.pc = "awaitRemove"
    /\ rt' = Enter("addLabels", "adding labels to issue", DefaultMaxRetries)
    /\ script' = [script EXCEPT !.pc = "awaitAdd",
                                !.warnings = IF rt.pc = "thrown"
                                             THEN @ + 1 ELSE @]
    /\ UNCHANGED <<plan, pc, args, remote, reqLog, loc, ret>>

\* lines 24-37 and 104: removeLabel ends, with a warning in place of an
\* error, and addLabels runs up to the first request of its withRetry
STP_AfterRemove ==
    /\ script.name = "stagingToProduction"
    /\ script.pc = "awaitRemove"
    /\ rt.pc \in {"returned", "thrown"}
    /\ rt' = Enter("addLabels", "adding labels to issue", DefaultMaxRetries)
    /\ script' = [script EXCEPT !.pc = "awaitAdd",
                                !.warnings = IF rt.pc = "thrown"
                                             THEN @ + 1 ELSE @]
    /\ UNCHANGED <<plan, pc, args, remote, reqLog, loc, ret>>

\* octokit.rest.issues.addLabels settles
AddLabelsSettles ==
    /\ rt.pc = "await"
    /\ rt.fn = "addLabels"
    /\ \E answer \in {Ok(Undefined)} \cup {Fail(e) : e \in RemoteErrors} :
          /\ reqLog' = Append(reqLog,
                              Mutation("addLabels", answer.ok,
                                       [issue |-> script.issues[script.index]]))
          /\ rt' = Settle(rt, answer)
    /\ UNCHANGED <<script, plan, pc, args, remote, loc, ret>>

\* a loop body without the try/catch of lines 100-111: an error of addLabels
\* ends the script
STP_AfterAddRethrows ==
    /\ script.name = "stagingToProduction"
    /\ script.pc = "awaitAdd"
    /\ rt.pc \in {"returned", "thrown"}
    /\ IF rt.pc = "returned"
       THEN LoopOverIssues([script EXCEPT !.processedCount = @ + 1,
                                          !.index = @ + 1])
       ELSE /\ script' = ScriptFails(script, rt.error)
            /\ UNCHANGED rt
    /\ UNCHANGED <<plan, pc, args, remote, reqLog, loc, ret>>

\* lines 104-111: addLabels ends; the issue is counted, or the error is
\* caught with a warning; the loop goes on with the next issue
STP_AfterAdd ==
    /\ script.name = "stagingToProduction"
    /\ script.pc = "awaitAdd"
    /\ rt.pc \in {"returned", "thrown"}
    /\ LoopOverIssues(
          IF rt.pc = "returned"
          THEN [script EXCEPT !.processedCount = @ + 1, !.index = @ + 1]
          ELSE [script EXCEPT !.warnings = @ + 1, !.index = @ + 1])
    /\ UNCHANGED <<plan, pc, args, remote, reqLog, loc, ret>>

NextStgToProd ==
    \/ STP_Start
    \/ ListIssuesSettles
    \/ STP_AfterList
    \/ RemoveLabelSettles
    \/ STP_AfterRemove
    \/ AddLabelsSettles
    \/ STP_AfterAdd
    \/ TimerFires

SpecStgToProd == InitStgToProd /\ [][NextStgToProd]_vars

\* the requests of the log that an operation made for an issue
LabelRequests(query, issue) ==
    {i \in 1..Len(reqLog) : /\ reqLog[i].query = query
                            /\ reqLog[i].variables.issue = issue}

\* one withRetry call was made by the operation for the issue: at least one
\* request, at most DefaultMaxRetries, one after the other, and none after
\* an answered one
OneVisit(query, issue) ==
    LET R == LabelRequests(query, issue)
    IN  /\ R # {}
        /\ Cardinality(R) <= DefaultMaxRetries
        /\ \A i, j \in R : i < j => ~reqLog[i].ok
        /\ \A i, j \in R : \A k \in i..j : k \in R

\* the removal of the label gave up for the issue after its retries
RemovalGaveUp(issue) ==
    LET R == LabelRequests("removeLabel", issue)
    IN  Cardinality(R) = DefaultMaxRetries /\ \A i \in R : ~reqLog[i].ok

\* the production label was added to the issue
LabelAdded(issue) ==
    \E i \in LabelRequests("addLabels", issue) : reqLog[i].ok

\* the place of a label request in the order of the loop: the issues in
\* list order, for each the removal and then the addition
LoopRank(i) ==
    LET k == CHOOSE k \in 1..Len(script.issues) :
                 script.issues[k] = reqLog[i].variables.issue
    IN  2 * k + (IF reqLog[i].query = "removeLabel" THEN 0 ELSE 1)

\* C21: stagingToProduction goes on after the failures of an issue: once
\* the issues were fetched the script never fails, and when it has finished
\* every fetched issue was visited exactly once in list order: one removal
\* (with its retries) and then one addition (with its retries), the addition
\* also when the removal gave up, the next issue also when the addition
\* gave up; processedCount is the number of issues whose production label
\* was added.
C21_ContinuesAfterFailures ==
    /\ script.pc = "failed" =>
          \A i \in RequestsOf("listIssues") : ~reqLog[i].ok
    /\ script.pc = "completed" =>
          /\ script.issues = remote.issues
          /\ \A k \in 1..Len(script.issues) :
                /\ OneVisit("removeLabel", script.issues[k])
                /\ OneVisit("addLabels", script.issues[k])
          /\ \A i, j \in RequestsOf("removeLabel") \cup RequestsOf("addLabels") :
                i < j => LoopRank(i) <= LoopRank(j)
          /\ script.processedCount =
                Cardinality({k \in 1..Len(script.issues) :
                                LabelAdded(script.issues[k])})

\* C21 witness: two issues; the removal gave up for the first and its
\* production label was added all the same; the addition gave up for the
\* second; the script finished with one issue processed
C21_Witness ==
    /\ script.name = "stagingToProduction"
    /\ script.pc = "completed"
    /\ ~script.failed
    /\ Len(script.issues) = 2
    /\ RemovalGaveUp(script.issues[1])
    /\ LabelAdded(script.issues[1])
    /\ ~LabelAdded(script.issues[2])
    /\ Cardinality(LabelRequests("addLabels", script.issues[2]))
          = DefaultMaxRetries
    /\ script.processedCount = 1
    /\ script.warnings = 2

---------------------------------------------------------------------------
(* addToProject, shared-utils.js lines 400-422, followed by a lookup of    *)
(* the content on the board with findIssueProjectItem.                     *)

\* the memberships of the content on other boards before the add: none, a
\* few, and one less than and as many as a page of the lookup holds
PriorMemberships ==
    {OnOtherBoards(n) : n \in (0..MaxItems) \cup {IssueItemsFirst - 1, IssueItemsFirst}}

InitAddThenFind ==
    /\ script \in {[NoScript EXCEPT !.name = "addToProject", !.pc = "start",
                                    !.env.missing = m, !.contentId = "I_1"] :
                       m \in BOOLEAN}
    /\ remote \in {[NoRemote EXCEPT !.items = l] : l \in PriorMemberships}
    /\ args = NoArgs
    /\ rt = IdleFrame
    /\ plan = <<>>
    /\ pc = "idle"
    /\ reqLog = <<>>
    /\ loc = NoLoc
    /\ ret = NoRet

\* lines 400-413: the environment is validated and the add is sent
ATP_Start ==
    /\ script.name = "addToProject"
    /\ script.pc = "start"
    /\ IF script.env.missing
       THEN /\ script' = ScriptFails(script, MissingEnvironment)
            /\ UNCHANGED rt
       ELSE /\ rt' = Enter("addItem", "adding content to project",
                           DefaultMaxRetries)
            /\ script' = [script EXCEPT !.pc = "awaitAdd"]
    /\ UNCHANGED <<plan, pc, args, remote, reqLog, loc, ret>>

\* the ADD_TO_PROJECT mutation settles: the content gets a membership on
\* the board, listed after the ones it has, and the answer carries the
\* membership's id; or the request fails and nothing is added
AddItemSettles ==
    /\ rt.pc = "await"
    /\ rt.fn = "addItem"
    /\ \/ /\ remote' = [remote EXCEPT !.items = Append(@, "P1")]
          /\ reqLog' = Append(reqLog,
                              Mutation("addItem", TRUE,
                                       [contentId |-> script.contentId]))
          /\ rt' = Settle(rt, Ok([itemId |-> Len(remote.items) + 1]))
       \/ \E e \in RemoteErrors :
             /\ reqLog' = Append(reqLog,
                                 Mutation("addItem", FALSE,
                                          [contentId |-> script.contentId]))
             /\ rt' = Settle(rt, Fail(e))
             /\ UNCHANGED remote
    /\ UNCHANGED <<script, plan, pc, args, loc, ret>>

\* an id read from the wrong place of the answer: undefined
AddedItemIdMisread(result) == NullId

\* const itemId = result.addProjectV2ItemById.item.id
AddedItemId(result) == result.itemId

\* lines 414-419: the add was made (or not); the item id is the output
ATP_AfterAdd ==
    /\ script.name = "addToProject"
    /\ script.pc = "awaitAdd"
    /\ rt.pc \in {"returned", "thrown"}
    /\ script' = IF rt.pc = "thrown"
                 THEN ScriptFails(script, rt.error)
                 ELSE ScriptCompletes(
                        [script EXCEPT !.itemId = AddedItemId(rt.result),
                                       !.outputs.set = @ \cup {"itemId"},
                                       !.outputs.itemId = AddedItemId(rt.result)])
    /\ UNCHANGED <<rt, plan, pc, args, remote, reqLog, loc, ret>>

\* the step that follows a successful add: the content is looked up on the
\* board, findIssueProjectItem(octokit, contentId, projectId)
LocateAfterAdd ==
    /\ script.name = "addToProject"
    /\ script.pc = "completed"
    /\ pc = "idle"
    /\ args' = [NoArgs EXCEPT !.projectId = "P1",
                              !.issueNodeId = script.contentId]
    /\ pc' = "start"
    /\ UNCHANGED <<script, rt, plan, remote, reqLog, loc, ret>>

NextAddThenFind ==
    \/ ATP_Start
    \/ AddItemSettles
    \/ ATP_AfterAdd
    \/ LocateAfterAdd
    \/ FIP_Call
    \/ IssueItemsQuerySettles
    \/ FIP_Resume
    \/ TimerFires

SpecAddThenFind == InitAddThenFind /\ [][NextAddThenFind]_vars

(* Properties of the add followed by the lookup. *)

\* the lookup that follows the add returned, and its answer held the issue
LocatedAfterAdd ==
    /\ script.pc = "completed"
    /\ pc = "done"
    /\ ret.kind = "value"
    /\ LastResolved

\* C17 as claimed: after a successful add (a non-empty item id is the
\* output), the lookup that follows returns the membership with that id,
\* whatever memberships on other boards the content had before.
C17_FoundWhateverPrior ==
    /\ script.pc = "completed" => script.outputs.itemId # NullId
    /\ LocatedAfterAdd =>
          /\ ret.value.id = script.outputs.itemId
          /\ ret.value.projectId = args.projectId

\* C17: a successful add gives a non-empty item id as output, and the
\* lookup that follows returns the membership with that id when the
\* content had fewer than IssueItemsFirst (20) memberships before the add;
\* with 20 or more before it, the new membership is beyond the one page
\* the lookup reads and null is returned.
C17_FoundWithinFirstPage ==
    /\ script.pc = "completed" =>
          /\ script.outputs.itemId # NullId
          /\ script.outputs.itemId = Len(remote.items)
          /\ remote.items[script.outputs.itemId] = "P1"
    /\ LocatedAfterAdd =>
          IF Len(remote.items) <= IssueItemsFirst
          THEN /\ ret.value.id = script.outputs.itemId
               /\ ret.value.projectId = args.projectId
          ELSE ret.value = NullItem

\* C17 witness: the content was on three other boards, was added, and the
\* lookup returned the new membership, the fourth
C17_Witness ==
    /\ LocatedAfterAdd
    /\ Len(remote.items) = 4
    /\ script.outputs.itemId = 4
    /\ ret.value = [id |-> 4, projectId |-> "P1"]

---------------------------------------------------------------------------
(* extractIssueFromBranch, shared-utils.js lines 326-339. A string is the  *)
(* sequence of its pieces; 'refs/heads/', 'issue-' and a digit are one     *)
(* piece each.                                                             *)

RefsHeads == "refs/heads/"
DigitPieces == {"4", "2"}
BranchPieces == {RefsHeads, "issue-", "-fix", "main"} \cup DigitPieces

\* the branch names: BRANCH is set, so a name has a piece at least
BranchNames == UNION {[1..n -> BranchPieces] : n \in 1..MaxBranchLen}

\* the patterns: 'issue-(\d+)', 'issue-\d+' (no capture group) and
\* 'issue-(\d*)' (a group that may capture nothing), each also with '^'
Regexes ==
    {[anchored |-> a, literal |-> "issue-", group |-> g] :
        a \in BOOLEAN, g \in {"digits", "plain", "optional"}}

\* String.prototype.indexOf for one piece: the first position, or 0
IndexOf(str, piece) ==
    IF \E i \in 1..Len(str) : str[i] = piece
    THEN Least({i \in 1..Len(str) : str[i] = piece})
    ELSE 0

\* branch.replace('refs/heads/', ''): a string pattern replaces its first
\* occurrence, wherever it is
ReplaceFirst(str, piece) ==
    LET i == IndexOf(str, piece)
    IN  IF i = 0
        THEN str
        ELSE SubSeq(str, 1, i - 1) \o SubSeq(str, i + 1, Len(str))

\* the digits that \d+ or \d* takes from position i on: all there are
DigitRun(str, i) ==
    LET stops == {j \in i..Len(str) : str[j] \notin DigitPieces}
    IN  SubSeq(str, i, IF stops = {} THEN Len(str) ELSE Least(stops) - 1)

\* the pattern matches with its literal at position i
MatchesAt(str, regex, i) ==
    /\ str[i] = regex.literal
    /\ regex.group = "optional" \/ DigitRun(str, i + 1) # <<>>

\* cleanBranch.match(regexPattern): the leftmost match, with its first
\* capture group when the pattern has one
Match(str, regex) ==
    LET starts == {i \in (IF regex.anchored THEN {1} ELSE 1..Len(str)) :
                      i <= Len(str) /\ MatchesAt(str, regex, i)}
    IN  IF starts = {}
        THEN [matched |-> FALSE, hasGroup |-> FALSE, group1 |-> <<>>]
        ELSE [matched |-> TRUE,
              hasGroup |-> regex.group # "plain",
              group1 |-> IF regex.group = "plain"
                         THEN <<>>
                         ELSE DigitRun(str, Least(starts) + 1)]

DigitValue(piece) == IF piece = "4" THEN 4 ELSE 2

\* parseInt(digits, 10) of a run of digits
RECURSIVE ParseInt(_)
ParseInt(digits) ==
    IF digits = <<>>
    THEN 0
    ELSE 10 * ParseInt(SubSeq(digits, 1, Len(digits) - 1))
         + DigitValue(digits[Len(digits)])

\* the null that extractIssueFromBranch returns
NullNumber == -1

\* line 327
CleanBranch(branch) == ReplaceFirst(branch, RefsHeads)

\* lines 327-338
ExtractIssueFromBranch(branch, regex) ==
    LET match == Match(CleanBranch(branch), regex)
    IN  IF match.matched /\ match.hasGroup /\ match.group1 # <<>>
        THEN ParseInt(match.group1)
        ELSE NullNumber

InitBranch ==
    /\ args \in {[NoArgs EXCEPT !.branch = b, !.regex = r] :
                     b \in BranchNames, r \in Regexes}
    /\ script = NoScript
    /\ remote = NoRemote
    /\ rt = IdleFrame
    /\ plan = <<>>
    /\ pc = "start"
    /\ reqLog = <<>>
    /\ loc = NoLoc
    /\ ret = NoRet

\* extractIssueFromBranch(branch, regex) runs, start to end
EIB_Call ==
    /\ pc = "start"
    /\ args.branch # <<>>
    /\ loc' = [cleanBranch |-> CleanBranch(args.branch)]
    /\ ret' = Returns(ExtractIssueFromBranch(args.branch, args.regex))
    /\ pc' = "done"
    /\ UNCHANGED <<script, rt, plan, args, remote, reqLog>>

NextBranch == EIB_Call

SpecBranch == InitBranch /\ [][NextBranch]_vars

(* Properties of extractIssueFromBranch. *)

\* the branch reference starts with 'refs/heads/'
HasPrefix(branch) == branch[1] = RefsHeads

\* C19 as claimed: 'refs/heads/' is stripped only when it is a prefix of
\* the branch reference; otherwise, also when the name holds 'refs/heads/'
\* further on, the name matched against the pattern is the unchanged
\* branch name.
C19_StripsOnlyPrefix ==
    pc = "done" =>
        loc.cleanBranch = IF HasPrefix(args.branch)
                          THEN Tail(args.branch)
                          ELSE args.branch

\* C20 as claimed: null is returned when the pattern does not match the
\* stripped name or the match has no first capture group, the number is
\* returned when the first capture group is numeric, and the result for a
\* branch name is the result for the same name with 'refs/heads/' before it.
C20_SameWithAndWithoutPrefix ==
    (pc = "done" /\ ret.kind = "value") =>
        LET match == Match(loc.cleanBranch, args.regex)
        IN  /\ (~match.matched \/ ~match.hasGroup) => ret.value = NullNumber
            /\ (match.matched /\ match.hasGroup /\ match.group1 # <<>>) =>
                  ret.value = ParseInt(match.group1)
            /\ ~HasPrefix(args.branch) =>
                  ExtractIssueFromBranch(<<RefsHeads>> \o args.branch,
                                         args.regex) = ret.value

---------------------------------------------------------------------------
(* findIssue, the script of src/unnamed/part_001 lines 112-170.            *)

\* the branch references and patterns findIssue is run with
FindIssueInputs ==
    {[NoArgs EXCEPT !.branch = b, !.regex = r] :
        b \in {<<"main">>, <<"issue-", "2">>, <<RefsHeads, "issue-", "2">>,
               <<RefsHeads, "issue-", "4", "-fix">>,
               <<"main", "issue-", "4">>},
        r \in {[anchored |-> a, literal |-> "issue-", group |-> g] :
                  a \in BOOLEAN, g \in {"digits", "plain"}}}

InitFindIssue ==
    /\ script \in {[NoScript EXCEPT !.name = "findIssue", !.pc = "start",
                                    !.env.missing = m] : m \in BOOLEAN}
    /\ args \in FindIssueInputs
    /\ remote = NoRemote
    /\ rt = IdleFrame
    /\ plan = <<>>
    /\ pc = "idle"
    /\ reqLog = <<>>
    /\ loc = NoLoc
    /\ ret = NoRet

\* setOutputs({issue: "", issue_number: "", issue_node_id: ""})
EmptyIssueOutputs(s) ==
    [s EXCEPT !.outputs.set = @ \cup {"issue", "issue_number", "issue_node_id"},
              !.outputs.issue = "",
              !.outputs.issue_number = "",
              !.outputs.issue_node_id = ""]

\* setOutputs({issue: JSON.stringify(issue.data), issue_number:
\* issueNumber.toString(), issue_node_id: issue.data.node_id})
FoundIssueOutputs(s, nodeId) ==
    [s EXCEPT !.outputs.set = @ \cup {"issue", "issue_number", "issue_node_id"},
              !.outputs.issue = "{issue}",
              !.outputs.issue_number = NumStr(s.issueNumber),
              !.outputs.issue_node_id = nodeId]

\* !issueNumber: null and 0 are falsy
NoIssueNumberFound(n) == n = NullNumber \/ n = 0

\* lines 112-146: the environment is validated, the issue number is read
\* from the branch; without one the outputs are empty, with one the issue
\* is asked for
FI_Start ==
    /\ script.name = "findIssue"
    /\ script.pc = "start"
    /\ IF script.env.missing
       THEN /\ script' = ScriptFails(script, MissingEnvironment)
            /\ UNCHANGED rt
       ELSE LET issueNumber == ExtractIssueFromBranch(args.branch, args.regex)
            IN  IF NoIssueNumberFound(issueNumber)
                THEN /\ script' = ScriptCompletes(EmptyIssueOutputs(script))
                     /\ UNCHANGED rt
                ELSE /\ rt' = Enter("issueGet", "fetching issue #",
                                    DefaultMaxRetries)
                     /\ script' = [script EXCEPT !.pc = "awaitIssue",
                                                 !.issueNumber = issueNumber]
    /\ UNCHANGED <<plan, pc, args, remote, reqLog, loc, ret>>

\* if (error.status === 404)
IsNotFound(error) == error.status = 404

\* lines 139-169: the issue was fetched and the outputs tell of it; or
\* withRetry threw, and the catch block gives empty outputs for a 404 and
\* throws the error again otherwise
FI_AfterGet ==
    /\ script.name = "findIssue"
    /\ script.pc = "awaitIssue"
    /\ rt.pc \in {"returned", "thrown"}
    /\ script' = IF rt.pc = "returned"
                 THEN ScriptCompletes(FoundIssueOutputs(script, rt.result))
                 ELSE IF IsNotFound(rt.error)
                 THEN ScriptCompletes(EmptyIssueOutputs(script))
                 ELSE ScriptFails(script, rt.error)
    /\ UNCHANGED <<rt, plan, pc, args, remote, reqLog, loc, ret>>

NextFindIssue == FI_Start \/ IssueGetSettles \/ FI_AfterGet \/ TimerFires

SpecFindIssue == InitFindIssue /\ [][NextFindIssue]_vars

(* Properties of findIssue. *)

\* the run ended after the fetch of the issue failed for good
FetchGaveUp ==
    /\ script.pc \in {"completed", "failed"}
    /\ rt.fn = "issueGet"
    /\ rt.pc = "thrown"

\* C18 as claimed: when the fetch of the issue fails with status 404, the
\* script does not fail: the outputs issue, issue_number and issue_node_id
\* are set to empty strings and the run completes; any other failure of
\* the fetch is thrown again.
C18_NotFoundGivesEmptyOutputs ==
    FetchGaveUp =>
        IF rt.lastError.status = 404
        THEN /\ script.pc = "completed"
             /\ ~script.failed
             /\ script.outputs.set = {"issue", "issue_number", "issue_node_id"}
             /\ script.outputs.issue = ""
             /\ script.outputs.issue_number = ""
             /\ script.outputs.issue_node_id = ""
        ELSE /\ script.pc = "failed"
             /\ script.error = rt.error

---------------------------------------------------------------------------
(* moveIssue, shared-utils.js lines 444-484.                               *)

InitMoveIssue ==
    /\ script \in {[NoScript EXCEPT !.name = "moveIssue", !.pc = "start",
                                    !.env.missing = m, !.env.fieldId = f,
                                    !.env.optionId = o, !.contentId = "I_1"] :
                       m \in BOOLEAN, f \in {3, 4}, o \in {31, 72}}
    /\ remote \in {[NoRemote EXCEPT !.items = l] :
                       l \in {<<>>, <<"P2">>, <<"P2", "P1">>}}
    /\ args = NoArgs
    /\ rt = IdleFrame
    /\ plan = <<>>
    /\ pc = "idle"
    /\ reqLog = <<>>
    /\ loc = NoLoc
    /\ ret = NoRet

\* await findIssueProjectItem(octokit, issueNodeId, projectId): the call
\* runs up to the first request of its withRetry
CallFindIssueItem(s) ==
    /\ args' = [NoArgs EXCEPT !.projectId = "P1", !.issueNodeId = s.contentId]
    /\ rt' = Enter("issueItems", "finding issue project items", DefaultMaxRetries)
    /\ pc' = "awaitIssueItems"
    /\ script' = [s EXCEPT !.pc = "awaitItem"]

\* a moveIssue that checks the option against the options of the field
\* (31 is an option of field 3) before it looks the item up
MI_StartChecksOption ==
    /\ script.name = "moveIssue"
    /\ script.pc = "start"
    /\ IF script.env.missing
       THEN /\ script' = ScriptFails(script, MissingEnvironment)
            /\ UNCHANGED <<rt, pc, args>>
       ELSE IF ~(script.env.fieldId = 3 /\ script.env.optionId = 31)
       THEN /\ script' = ScriptFails(script,
                                     MkError("Error", <<"invalid option">>,
                                             NoStatus))
            /\ UNCHANGED <<rt, pc, args>>
       ELSE CallFindIssueItem([script EXCEPT !.fieldId = script.env.fieldId,
                                             !.optionId = script.env.optionId])
    /\ UNCHANGED <<plan, remote, reqLog, loc, ret>>

\* lines 444-465: the environment is validated and the item is looked up
MI_Start ==
    /\ script.name = "moveIssue"
    /\ script.pc = "start"
    /\ IF script.env.missing
       THEN /\ script' = ScriptFails(script, MissingEnvironment)
            /\ UNCHANGED <<rt, pc, args>>
       ELSE CallFindIssueItem([script EXCEPT !.fieldId = script.env.fieldId,
                                             !.optionId = script.env.optionId])
    /\ UNCHANGED <<plan, remote, reqLog, loc, ret>>

\* lines 465-481: the item was found and the update is sent; or it was not
\* found and the script returns with a warning; or the lookup failed
MI_AfterItem ==
    /\ script.name = "moveIssue"
    /\ script.pc = "awaitItem"
    /\ pc = "done"
    /\ IF ret.kind = "error"
       THEN /\ script' = ScriptFails(script, ret.error)
            /\ UNCHANGED rt
       ELSE IF ret.value = NullItem
       THEN /\ script' = ScriptCompletes([script EXCEPT !.warnings = @ + 2])
            /\ UNCHANGED rt
       ELSE /\ script' = [script EXCEPT !.itemId = ret.value.id,
                                        !.pc = "awaitUpdate"]
            /\ rt' = Enter("updateField", "updating issue status",
                           DefaultMaxRetries)
    /\ pc' = "idle"
    /\ ret' = NoRet
    /\ UNCHANGED <<plan, args, remote, reqLog, loc>>

\* lines 473-483: the update was made (or not)
MI_AfterUpdate ==
    /\ script.name = "moveIssue"
    /\ script.pc = "awaitUpdate"
    /\ rt.pc \in {"returned", "thrown"}
    /\ script' = IF rt.pc = "thrown"
                 THEN ScriptFails(script, rt.error)
                 ELSE ScriptCompletes(script)
    /\ UNCHANGED <<rt, plan, pc, args, remote, reqLog, loc, ret>>

NextMoveIssue ==
    \/ MI_Start
    \/ IssueItemsQuerySettles
    \/ FIP_Resume
    \/ MI_AfterItem
    \/ UpdateFieldSettles
    \/ MI_AfterUpdate
    \/ TimerFires

SpecMoveIssue == InitMoveIssue /\ [][NextMoveIssue]_vars

\* the id of the issue's membership on the target board among the
\* memberships the lookup is given, NullId when there is none
TargetItemId == IssueItemOf(IssuePage(remote.items), "P1").id

\* C22: moveIssue sends FIELD_ID and OPTION_ID as it was given them, with
\* the id of the item it located, whatever the pair is: every update
\* request carries exactly these three; with an item located the script
\* completes only after the remote service accepted the update; and it
\* fails only for a missing variable (before any request) or with the
\* error of withRetry that carries the last error of the remote service,
\* after DefaultMaxRetries failed requests.
C22_PassesIdsThrough ==
    /\ \A i \in RequestsOf("updateField") :
          reqLog[i].variables = [itemId |-> TargetItemId,
                                 fieldId |-> script.env.fieldId,
                                 optionId |-> script.env.optionId]
    /\ (script.pc = "completed" /\ script.itemId # NullId) =>
          /\ reqLog[Len(reqLog)].query = "updateField"
          /\ reqLog[Len(reqLog)].ok
    /\ script.pc = "failed" =>
          IF script.env.missing
          THEN reqLog = <<>>
          ELSE /\ rt.pc = "thrown"
               /\ rt.lastError \in RemoteErrors
               /\ script.error = ExhaustedError(rt.operation, DefaultMaxRetries,
                                                rt.lastError)
               /\ TrailingFailures = DefaultMaxRetries

\* C22 witness: an option of another field was given; the update was sent
\* with it, the remote service refused it on every attempt, and the script
\* failed with that error
C22_Witness ==
    /\ script.name = "moveIssue"
    /\ script.pc = "failed"
    /\ script.env.fieldId = 3
    /\ script.env.optionId = 72
    /\ Cardinality(RequestsOf("updateField")) = DefaultMaxRetries
    /\ \A i \in RequestsOf("updateField") :
          ~reqLog[i].ok /\ reqLog[i].variables.optionId = 72
    /\ rt.lastError.kind = "rejection"

---------------------------------------------------------------------------
(* setDate and findDateField, set-date.js lines 24-85.                     *)

\* the fields of the board as setDate may find them: no field, a
\* single-select field named Due before a date field named Due, a date
\* field alone, a single-select field alone, a date field of another name
\* before two date fields named Due
DateFieldLists ==
    {<<>>,
     <<MkField(1, [name |-> "Due", hasOptions |-> TRUE, optNames |-> <<"Done">>]),
       MkField(2, [name |-> "Due", hasOptions |-> FALSE, optNames |-> <<>>])>>,
     <<MkField(1, [name |-> "Due", hasOptions |-> FALSE, optNames |-> <<>>])>>,
     <<MkField(1, [name |-> "Due", hasOptions |-> TRUE, optNames |-> <<>>])>>,
     <<MkField(1, [name |-> "Start", hasOptions |-> FALSE, optNames |-> <<>>]),
       MkField(2, [name |-> "Due", hasOptions |-> FALSE, optNames |-> <<>>]),
       MkField(3, [name |-> "Due", hasOptions |-> FALSE, optNames |-> <<>>])>>}

\* the date of the day the script runs
Today == "<today>"

InitSetDate ==
    /\ script \in {[NoScript EXCEPT !.name = "setDate", !.pc = "start",
                                    !.env.missing = m, !.env.fieldName = "Due",
                                    !.env.dateValue = d, !.contentId = "I_1"] :
                       m \in BOOLEAN, d \in {"", "2024-03-15"}}
    /\ remote \in {[NoRemote EXCEPT !.fields = f, !.items = l] :
                       f \in DateFieldLists, l \in {<<>>, <<"P2", "P1">>}}
    /\ args = NoArgs
    /\ rt = IdleFrame
    /\ plan = <<>>
    /\ pc = "idle"
    /\ reqLog = <<>>
    /\ loc = NoLoc
    /\ ret = NoRet

\* a find by name alone: the first field of the name, whatever its type
FindDateFieldByName(fields, fieldName) ==
    LET hits == {i \in 1..Len(fields) : NameEquals(fields[i].name, fieldName)}
    IN  IF hits = {} THEN 0 ELSE Least(hits)

\* nodes.find(field => field.name === fieldName && field.dataType === 'DATE'):
\* the index of the first such field, 0 when there is none
FindDateField(fields, fieldName) ==
    LET hits == {i \in 1..Len(fields) :
                    NameEquals(fields[i].name, fieldName)
                    /\ fields[i].dataType = "DATE"}
    IN  IF hits = {} THEN 0 ELSE Least(hits)

DateFieldNotFound(fieldName) ==
    MkError("Error",
            <<"Date field \"", fieldName, "\" not found in project">>,
            NoStatus)

\* process.env.DATE_VALUE || new Date().toISOString().split('T')[0]
DateValueOf(env) == IF env.dateValue # "" THEN env.dateValue ELSE Today

\* lines 45-58 and 24-28: the environment is validated and findDateField
\* asks for the fields
SD_Start ==
    /\ script.name = "setDate"
    /\ script.pc = "start"
    /\ IF script.env.missing
       THEN /\ script' = ScriptFails(script, MissingEnvironment)
            /\ UNCHANGED <<rt, args>>
       ELSE /\ args' = [NoArgs EXCEPT !.fieldName = script.env.fieldName,
                                      !.projectId = "P1"]
            /\ rt' = Enter("fields", "finding date field", DefaultMaxRetries)
            /\ script' = [script EXCEPT !.pc = "awaitDateField"]
    /\ UNCHANGED <<plan, pc, remote, reqLog, loc, ret>>

\* lines 29-39 and 58-61: the fields were fetched (or not); the date field
\* is looked for among them, and the item is looked up
SD_AfterFields ==
    /\ script.name = "setDate"
    /\ script.pc = "awaitDateField"
    /\ rt.pc \in {"returned", "thrown"}
    /\ IF rt.pc = "thrown"
       THEN /\ script' = ScriptFails(script, rt.error)
            /\ UNCHANGED <<rt, pc, args>>
       ELSE LET i == FindDateField(rt.result, script.env.fieldName)
            IN  IF i = 0
                THEN /\ script' = ScriptFails(script,
                                              DateFieldNotFound(script.env.fieldName))
                     /\ UNCHANGED <<rt, pc, args>>
                ELSE CallFindIssueItem([script EXCEPT !.fieldId = rt.result[i].id])
    /\ UNCHANGED <<plan, remote, reqLog, loc, ret>>

\* lines 61-77: the item was found and the date is sent; or it was not
\* found and the script returns with a warning; or the lookup failed
SD_AfterItem ==
    /\ script.name = "setDate"
    /\ script.pc = "awaitItem"
    /\ pc = "done"
    /\ IF ret.kind = "error"
       THEN /\ script' = ScriptFails(script, ret.error)
            /\ UNCHANGED rt
       ELSE IF ret.value = NullItem
       THEN /\ script' = ScriptCompletes([script EXCEPT !.warnings = @ + 1])
            /\ UNCHANGED rt
       ELSE /\ script' = [script EXCEPT !.itemId = ret.value.id,
                                        !.pc = "awaitUpdate"]
            /\ rt' = Enter("updateDate", "updating date field",
                           DefaultMaxRetries)
    /\ pc' = "idle"
    /\ ret' = NoRet
    /\ UNCHANGED <<plan, args, remote, reqLog, loc>>

\* the UPDATE_PROJECT_DATE_FIELD mutation settles
UpdateDateSettles ==
    /\ rt.pc = "await"
    /\ rt.fn = "updateDate"
    /\ \E answer \in {Ok(Undefined)} \cup {Fail(e) : e \in RemoteErrors} :
          /\ reqLog' = Append(reqLog,
                              Mutation("updateDate", answer.ok,
                                       [itemId |-> script.itemId,
                                        fieldId |-> script.fieldId,
                                        dateValue |-> DateValueOf(script.env)]))
          /\ rt' = Settle(rt, answer)
    /\ UNCHANGED <<script, plan, pc, args, remote, loc, ret>>

\* lines 69-84: the date was set and the outputs tell of it; or it was not
SD_AfterUpdate ==
    /\ script.name = "setDate"
    /\ script.pc = "awaitUpdate"
    /\ rt.pc \in {"returned", "thrown"}
    /\ script' = IF rt.pc = "thrown"
                 THEN ScriptFails(script, rt.error)
                 ELSE ScriptCompletes(
                        [script EXCEPT !.outputs.set = @ \cup {"fieldId", "date"},
                                       !.outputs.fieldId = script.fieldId,
                                       !.outputs.date = DateValueOf(script.env)])
    /\ UNCHANGED <<rt, plan, pc, args, remote, reqLog, loc, ret>>

NextSetDate ==
    \/ SD_Start
    \/ FieldsQuerySettles
    \/ SD_AfterFields
    \/ IssueItemsQuerySettles
    \/ FIP_Resume
    \/ SD_AfterItem
    \/ UpdateDateSettles
    \/ SD_AfterUpdate
    \/ TimerFires

SpecSetDate == InitSetDate /\ [][NextSetDate]_vars

(* Properties of setDate. *)

\* the positions of the board's fields that carry the requested name and
\* the data type DATE
DateFields ==
    {i \in 1..Len(remote.fields) :
        /\ remote.fields[i].name = script.env.fieldName
        /\ remote.fields[i].dataType = "DATE"}

\* C27: setDate resolves the date field before it locates the item: a
\* membership query follows an answered fields query and is made only when
\* the board has a field of the requested name and type DATE; the date
\* mutation follows an answered membership query and carries the id of the
\* first such field (a field of the same name and another type before it
\* is passed over); without such a field the script fails with "Date field
\* not found" once the fields were fetched, and makes neither request; the
\* outputs fieldId and date are set only after the date mutation was
\* accepted, to the id of that field and the date that was sent.
C27_DateFieldFirst ==
    /\ \A j \in RequestsOf("issueItems") :
          /\ DateFields # {}
          /\ \E k \in 1..(j - 1) : reqLog[k].query = "fields" /\ reqLog[k].ok
    /\ \A i \in RequestsOf("updateDate") :
          /\ DateFields # {}
          /\ \A d \in DateFields :
                remote.fields[reqLog[i].variables.fieldId].id <= remote.fields[d].id
          /\ reqLog[i].variables.fieldId \in DateFields
          /\ \E j \in 1..(i - 1) : reqLog[j].query = "issueItems" /\ reqLog[j].ok
    /\ (DateFields = {} /\ script.pc \in {"completed", "failed"}
          /\ ~script.env.missing) =>
          /\ script.pc = "failed"
          /\ reqLog[Len(reqLog)].query = "fields"
          /\ reqLog[Len(reqLog)].ok =>
                script.error = DateFieldNotFound(script.env.fieldName)
    /\ IF script.pc = "completed" /\ RequestsOf("updateDate") # {}
       THEN /\ reqLog[Len(reqLog)].query = "updateDate"
            /\ reqLog[Len(reqLog)].ok
            /\ script.outputs.set = {"fieldId", "date"}
            /\ script.outputs.fieldId = reqLog[Len(reqLog)].variables.fieldId
            /\ script.outputs.date = reqLog[Len(reqLog)].variables.dateValue
            /\ script.outputs.date =
                  IF script.env.dateValue = "" THEN Today ELSE script.env.dateValue
       ELSE script.outputs = NoOutputs

\* C27 witness: a single-select field named Due comes before the date field
\* named Due; the date field (id 2) was resolved, then the item located,
\* the date mutation was accepted after a failed attempt, and the outputs
\* were set
C27_Witness ==
    /\ script.name = "setDate"
    /\ script.pc = "completed"
    /\ Len(remote.fields) = 2
    /\ remote.fields[1].name = "Due" /\ remote.fields[1].hasOptions
    /\ Cardinality(RequestsOf("updateDate")) = 2
    /\ \A i \in RequestsOf("updateDate") : reqLog[i].variables.fieldId = 2
    /\ script.outputs.fieldId = 2
    /\ script.outputs.date = "2024-03-15"

---------------------------------------------------------------------------
(* removePRFromProject, src/unnamed/part_000 lines 20-61.                  *)

InitRemovePR ==
    /\ script \in {[NoScript EXCEPT !.name = "removePRFromProject",
                                    !.pc = "start", !.env.missing = m,
                                    !.contentId = "PR_1"] : m \in BOOLEAN}
    /\ remote \in {[NoRemote EXCEPT !.items = l, !.cuts = c] :
                       l \in {<<>>, <<"P2">>, <<"P2", "P1">>},
                       c \in Splits(2)}
    /\ remote.cuts \subseteq 1..(Len(remote.items) - 1)
    /\ args = NoArgs
    /\ rt = IdleFrame
    /\ plan = <<>>
    /\ pc = "idle"
    /\ reqLog = <<>>
    /\ loc = NoLoc
    /\ ret = NoRet

\* lines 20-33 and 289-298: the environment is validated and
\* findPRProjectItem runs up to the first request of its first withRetry
RP_Start ==
    /\ script.name = "removePRFromProject"
    /\ script.pc = "start"
    /\ IF script.env.missing
       THEN /\ script' = ScriptFails(script, MissingEnvironment)
            /\ UNCHANGED <<rt, pc, args, loc>>
       ELSE /\ args' = [NoArgs EXCEPT !.projectId = "P1",
                                      !.prNodeId = script.contentId]
            /\ loc' = NoLoc
            /\ rt' = Enter("prItems", "finding PR project items",
                           DefaultMaxRetries)
            /\ pc' = "awaitPage"
            /\ script' = [script EXCEPT !.pc = "awaitItem"]
    /\ UNCHANGED <<plan, remote, reqLog, ret>>

\* a removePRFromProject without the test of line 35: the removal is sent
\* whatever the lookup returned
RP_AfterItemNoGuard ==
    /\ script.name = "removePRFromProject"
    /\ script.pc = "awaitItem"
    /\ pc = "done"
    /\ IF ret.kind = "error"
       THEN /\ script' = ScriptFails(script, ret.error)
            /\ UNCHANGED rt
       ELSE /\ script' = [script EXCEPT !.itemId = ret.value.id,
                                        !.pc = "awaitRemove"]
            /\ rt' = Enter("removeItem", "removing PR from project",
                           DefaultMaxRetries)
    /\ pc' = "idle"
    /\ ret' = NoRet
    /\ UNCHANGED <<plan, args, remote, reqLog, loc>>

\* lines 33-52: the item was found and the removal is sent; or it was not
\* found and the outputs say so; or the lookup failed
RP_AfterItem ==
    /\ script.name = "removePRFromProject"
    /\ script.pc = "awaitItem"
    /\ pc = "done"
    /\ IF ret.kind = "error"
       THEN /\ script' = ScriptFails(script, ret.error)
            /\ UNCHANGED rt
       ELSE IF ret.value = NullItem
       THEN /\ script' = ScriptCompletes(
                           [script EXCEPT
                              !.outputs.set = @ \cup {"removed", "pr-number", "item-id"},
                              !.outputs.removed = "false",
                              !.outputs.pr_number = "",
                              !.outputs.item_id = NullId])
            /\ UNCHANGED rt
       ELSE /\ script' = [script EXCEPT !.itemId = ret.value.id,
                                        !.pc = "awaitRemove"]
            /\ rt' = Enter("removeItem", "removing PR from project",
                           DefaultMaxRetries)
    /\ pc' = "idle"
    /\ ret' = NoRet
    /\ UNCHANGED <<plan, args, remote, reqLog, loc>>

\* the REMOVE_FROM_PROJECT mutation settles
RemoveItemSettles ==
    /\ rt.pc = "await"
    /\ rt.fn = "removeItem"
    /\ \E answer \in {Ok(Undefined)} \cup {Fail(e) : e \in RemoteErrors} :
          /\ reqLog' = Append(reqLog,
                              Mutation("removeItem", answer.ok,
                                       [itemId |-> script.itemId]))
          /\ rt' = Settle(rt, answer)
    /\ UNCHANGED <<script, plan, pc, args, remote, loc, ret>>

\* lines 45-60: the removal was made and the outputs tell of it; or not
RP_AfterRemove ==
    /\ script.name = "removePRFromProject"
    /\ script.pc = "awaitRemove"
    /\ rt.pc \in {"returned", "thrown"}
    /\ script' = IF rt.pc = "thrown"
                 THEN ScriptFails(script, rt.error)
                 ELSE ScriptCompletes(
                        [script EXCEPT
                           !.outputs.set = @ \cup {"removed", "pr-number", "item-id"},
                           !.outputs.removed = "true",
                           !.outputs.pr_number = "",
                           !.outputs.item_id = script.itemId])
    /\ UNCHANGED <<rt, plan, pc, args, remote, reqLog, loc, ret>>

NextRemovePR ==
    \/ RP_Start
    \/ PRItemsQuerySettles
    \/ PR_Resume
    \/ RP_AfterItem
    \/ RemoveItemSettles
    \/ RP_AfterRemove
    \/ TimerFires

SpecRemovePR == InitRemovePR /\ [][NextRemovePR]_vars

---------------------------------------------------------------------------
(* findFields, find-fields.js lines 17-38.                                 *)

InitFindFields ==
    /\ script \in {[NoScript EXCEPT !.name = "findFields", !.pc = "start",
                                    !.env.missing = m,
                                    !.env.fieldName = "Status",
                                    !.env.optionName = o] :
                       m \in BOOLEAN, o \in OptionNames}
    /\ remote \in {[NoRemote EXCEPT !.fields = f] :
                       f \in {<<>>,
                              <<MkField(1, [name |-> "Status", hasOptions |-> TRUE,
                                            optNames |-> <<"Done">>])>>}}
    /\ args = NoArgs
    /\ rt = IdleFrame
    /\ plan = <<>>
    /\ pc = "idle"
    /\ reqLog = <<>>
    /\ loc = NoLoc
    /\ ret = NoRet

\* lines 17-33: the environment is validated and findProjectFields runs up
\* to the first request of its withRetry
FF_Start ==
    /\ script.name = "findFields"
    /\ script.pc = "start"
    /\ IF script.env.missing
       THEN /\ script' = ScriptFails(script, MissingEnvironment)
            /\ UNCHANGED <<rt, pc, args>>
       ELSE /\ args' = [NoArgs EXCEPT !.fieldName = script.env.fieldName,
                                      !.optionName = script.env.optionName,
                                      !.projectId = "P1"]
            /\ rt' = Enter("fields", "finding project fields", DefaultMaxRetries)
            /\ pc' = "awaitFields"
            /\ script' = [script EXCEPT !.pc = "awaitFields"]
    /\ UNCHANGED <<plan, remote, reqLog, loc, ret>>

\* lines 28-37: the field and option were resolved and are the outputs; or
\* findProjectFields threw
FF_AfterFields ==
    /\ script.name = "findFields"
    /\ script.pc = "awaitFields"
    /\ pc = "done"
    /\ script' = IF ret.kind = "error"
                 THEN ScriptFails(script, ret.error)
                 ELSE ScriptCompletes(
                        [script EXCEPT
                           !.fieldId = ret.value.fieldId,
                           !.optionId = ret.value.optionId,
                           !.outputs.set = @ \cup {"fieldId", "optionId"},
                           !.outputs.fieldId = ret.value.fieldId,
                           !.outputs.optionId = ret.value.optionId])
    /\ pc' = "idle"
    /\ ret' = NoRet
    /\ UNCHANGED <<rt, plan, args, remote, reqLog, loc>>

NextFindFields ==
    \/ FF_Start
    \/ FieldsQuerySettles
    \/ FPF_Resume
    \/ FF_AfterFields
    \/ TimerFires

SpecFindFields == InitFindFields /\ [][NextFindFields]_vars

---------------------------------------------------------------------------
(* The scripts side by side, one invocation of one of them.                *)

NextAddToProject == ATP_Start \/ AddItemSettles \/ ATP_AfterAdd \/ TimerFires

InitScripts ==
    \/ InitAddDomain
    \/ InitStgToProd
    \/ InitAddThenFind
    \/ InitFindIssue
    \/ InitMoveIssue
    \/ InitSetDate
    \/ InitRemovePR
    \/ InitFindFields

NextScripts ==
    \/ NextAddDomain
    \/ NextStgToProd
    \/ NextAddToProject
    \/ NextFindIssue
    \/ NextMoveIssue
    \/ NextSetDate
    \/ NextRemovePR
    \/ NextFindFields

SpecScripts == InitScripts /\ [][NextScripts]_vars

(* Properties of the scripts. *)

\* a step that sends a request to the remote service
StartsCall == rt'.pc = "await" /\ rt' # rt

\* C16: in every script at most one remote call is in flight: a request is
\* out exactly while withRetry awaits its operation, and a step sends a
\* request only when none is out; when a retry timer is pending, the only
\* request that can be sent is the next attempt of the same withRetry,
\* sent by the step of the timer.
C16_OneCallInFlight ==
    /\ [](/\ rt.inflight \in {0, 1}
          /\ rt.inflight = 1 <=> rt.pc = "await")
    /\ [][StartsCall =>
            /\ rt.pc # "await"
            /\ rt.inflight = 0
            /\ rt.pc = "delay" =>
                  /\ rt'.fn = rt.fn
                  /\ rt'.attempt = rt.attempt + 1
                  /\ rt'.calls = rt.calls + 1
                  /\ script' = script]_vars

\* C16 witness: addDomain ended its run after the issue fetch, the fields
\* query, the membership query and the update, one of which was sent again
\* after a failure
C16_Witness ==
    /\ script.name = "addDomain"
    /\ script.pc = "completed"
    /\ RequestsOf("issueGet") # {}
    /\ RequestsOf("fields") # {}
    /\ RequestsOf("issueItems") # {}
    /\ RequestsOf("updateField") # {}
    /\ \E i \in 1..Len(reqLog) : ~reqLog[i].ok

\* the scripts that locate an item and then change it
LocatesThenMutates ==
    script.name \in {"moveIssue", "setDate", "removePRFromProject"}

\* the update and remove mutations of the log
ItemMutations ==
    RequestsOf("updateField") \cup RequestsOf("updateDate")
        \cup RequestsOf("removeItem")

\* the locator has returned null to the script that awaits it
LocatorReturnedNull ==
    /\ script.pc = "awaitItem"
    /\ pc = "done"
    /\ ret.kind = "value"
    /\ ret.value = NullItem

\* C24: in moveIssue, setDate and removePRFromProject, when the locator
\* returns null the script completes at once, without failure and without
\* a request (removePRFromProject with the output removed = 'false'), and
\* nothing happens after a script has ended, so no mutation is ever
\* issued; every mutation that is issued follows an answered membership
\* query of the same invocation and carries the id of a membership of the
\* content on the target board.
C24_NotFoundSkipsMutation ==
    /\ [](LocatesThenMutates =>
            /\ script.itemId = NullId => ItemMutations = {}
            /\ \A i \in ItemMutations :
                  /\ reqLog[i].variables.itemId = script.itemId
                  /\ reqLog[i].variables.itemId
                        \in {k \in 1..Len(remote.items) : remote.items[k] = "P1"}
                  /\ \E j \in 1..(i - 1) :
                        /\ reqLog[j].query \in {"issueItems", "prItems"}
                        /\ reqLog[j].ok /\ reqLog[j].resolved)
    /\ [][LocatesThenMutates =>
            /\ LocatorReturnedNull =>
                  /\ script'.pc = "completed"
                  /\ ~script'.failed
                  /\ script'.itemId = NullId
                  /\ reqLog' = reqLog
                  /\ rt'.pc # "await"
                  /\ script.name = "removePRFromProject" =>
                        /\ "removed" \in script'.outputs.set
                        /\ script'.outputs.removed = "false"
            /\ script.pc \notin {"completed", "failed"}]_vars

\* C24 witness: the pull request is on another board only; the lookup
\* fetched its page and returned null, and removePRFromProject completed
\* with removed = 'false' and no removal sent
C24_Witness ==
    /\ script.name = "removePRFromProject"
    /\ script.pc = "completed"
    /\ ~script.failed
    /\ remote.items = <<"P2">>
    /\ reqLog # <<>>
    /\ reqLog[Len(reqLog)].query = "prItems"
    /\ reqLog[Len(reqLog)].ok /\ reqLog[Len(reqLog)].resolved
    /\ RequestsOf("removeItem") = {}
    /\ script.outputs.removed = "false"

\* the errors a main function raises itself, outside withRetry and the
\* lookups
OwnErrors ==
    {MissingEnvironment, NoIssueNumber,
     ItemNotFound(script.env.issueNumber, "P1"),
     DateFieldNotFound(script.env.fieldName)}

\* C26: executeScript calls setFailed exactly when the main function
\* raised an error: a failed run carries the message of the error that was
\* raised (an error the main function raised itself, a FieldNotFound or
\* OptionNotFound of the resolver, or the error withRetry ended with) and
\* that same error is thrown on; a run that completed, the soft not-found
\* returns included, never called setFailed.
C26_FailedIffError ==
    /\ script.failed <=> script.pc = "failed"
    /\ script.failed =>
          /\ script.error # NoError
          /\ script.failedMessage = script.error.message
          /\ \/ script.error \in OwnErrors
             \/ script.error.kind \in {"FieldNotFound", "OptionNotFound"}
             \/ rt.pc = "thrown" /\ script.error = rt.error
    /\ ~script.failed =>
          /\ script.error = NoError
          /\ script.failedMessage = <<>>
    /\ (script.pc = "completed" /\ rt.pc = "thrown") =>
          script.name = "stagingToProduction"

\* C26 witness: moveIssue located the item, the update failed on every
\* attempt, and the run was marked as failed with the message of the error
\* withRetry ended with
C26_Witness ==
    /\ script.name = "moveIssue"
    /\ script.failed
    /\ script.itemId # NullId
    /\ rt.pc = "thrown"
    /\ script.failedMessage =
          ExhaustedError("updating issue status", DefaultMaxRetries,
                         rt.lastError).message

===========================================================================
